---------------------------- MODULE Spec2Model ----------------------------
(***************************************************************************)
(* A model of the ATUS time-use scripts: the BLS API client and its        *)
(* response flattener, the scripts that call them, and the PDF extractors. *)
(*                                                                         *)
(* Python values are modelled as follows.                                  *)
(*   - A dict is a function whose DOMAIN is its set of keys; the empty     *)
(*     dict is the function with the empty domain.                         *)
(*   - None is the record None; a non-None value v is Some(v).             *)
(*   - The outcome of a call is Return(optional value) or Raise(name of    *)
(*     the exception that propagates out of the call).                     *)
(*   - A float is a fixed-point integer, in hundredths.                    *)
(***************************************************************************)
EXTENDS Integers, Sequences, FiniteSets, TLC

VARIABLES
    script,     \* the function or script under execution
    pc,         \* its position
    arg,        \* the argument of the call under execution
    http,       \* what the HTTP layer answered to the call's request
    ret,        \* outcome of the most recent call whose value is still used
    requests,   \* every HTTP request issued so far, in order
    answers,    \* for each request, whether the caller got a usable response
    steps,      \* the functions called so far, in order
    files,      \* the output files written so far
    results,    \* the results dict a script accumulates
    doc         \* state of the PDF document handle

vars == <<script, pc, arg, http, ret, requests, answers, steps, files, results, doc>>

---------------------------------------------------------------------------
(* Bounds of the model *)

\* Most series in one API response.
MaxSeries == 2

\* Most data items in one series of a response.
MaxData == 1

\* Most series IDs passed to one client call.
MaxIds == 2

\* Most pages in a PDF.
MaxPages == 2

\* Most sentences on the summary page of a PDF.
MaxSentences == 3

\* Most lines on a table page of a PDF.
MaxLines == 2

\* Most lines of text in a PDF that scrape_atus reads.
MaxTextLines == 3

\* Most lines of the table page that parse_time_use_data reads.
MaxTableLines == 3

\* Most tables in results['demographic_tables'].
MaxTables == 3

---------------------------------------------------------------------------
(* Python values *)

None == [none |-> TRUE]

Some(v) == [none |-> FALSE, val |-> v]

Return(v) == [raised |-> "", value |-> v]

Raise(e) == [raised |-> e]

EmptyDict == [k \in {} |-> TRUE]

\* bool(d) of a dict: a dict is truthy iff it has a key
Truthy(d) == DOMAIN d # {}

\* bool(x) of an optional dict
TruthyOpt(x) == ~x.none /\ Truthy(x.val)

\* All sequences over S of length at most n
RECURSIVE SeqsUpTo(_, _)
SeqsUpTo(S, n) ==
    IF n = 0 THEN {<<>>}
    ELSE LET shorter == SeqsUpTo(S, n - 1)
         IN  shorter \cup {Append(s, x) : s \in {t \in shorter : Len(t) = n - 1}, x \in S}

\* Sum of f[i] over 1..n
RECURSIVE SumTo(_, _)
SumTo(f, n) == IF n = 0 THEN 0 ELSE f[n] + SumTo(f, n - 1)

---------------------------------------------------------------------------
(* The BLS API as the scripts see it *)

SUCCEEDED == "REQUEST_SUCCEEDED"

NOT_PROCESSED == "REQUEST_NOT_PROCESSED"

\* The strings the API puts in an item's 'value': a number, or '-' for "no data"
ValueStrings == {"-", "2.5"}

\* The data items of a series: every item has year, period and value; the
\* item of the most recent period also carries 'latest': 'true'
Items ==
    {[year |-> "2024", period |-> "A01", value |-> v] : v \in ValueStrings}
    \cup {[year |-> "2024", period |-> "A01", value |-> "2.5", latest |-> "true"]}

\* The series whose entry in a response carries a 'catalog'
Catalogued == {"TUU10101AA01005910"}

\* The 'series_title' of a catalog
SeriesTitle == "Avg hrs per day - Watching TV"

\* The series of a response, over a set of series IDs
SeriesOver(ids) ==
    {IF id \in Catalogued
     THEN [seriesID |-> id, catalog |-> [series_title |-> SeriesTitle], data |-> d]
     ELSE [seriesID |-> id, data |-> d] : id \in ids, d \in SeqsUpTo(Items, MaxData)}

\* The decoded JSON bodies: with or without 'status', with or without 'Results'
BodiesOver(ids) ==
    LET lists == SeqsUpTo(SeriesOver(ids), MaxSeries)
    IN  {EmptyDict}
        \cup {[status |-> s] : s \in {SUCCEEDED, NOT_PROCESSED}}
        \cup {[Results |-> [series |-> l]] : l \in lists}
        \cup {[status |-> s, Results |-> [series |-> l]] :
                s \in {SUCCEEDED, NOT_PROCESSED}, l \in lists}

\* requests.exceptions.RequestException and its subclasses, by the call that
\* raises them: requests.post/get (ConnectionError), raise_for_status
\* (HTTPError), response.json (requests' JSONDecodeError)
RequestExceptions == {"ConnectionError", "HTTPError", "JSONDecodeError"}

\* What one HTTP exchange can come to
OutcomesOver(ids) ==
    {[kind |-> e] : e \in RequestExceptions}
    \cup {[kind |-> "ok", body |-> b] : b \in BodiesOver(ids)}

NoHttp == [kind |-> "none"]

---------------------------------------------------------------------------
(* atus_api_client.py: ATUSAPIClient *)

\* The series IDs the client is called with
ClientIds == {"TUU10101AA01005910", "TUU10101AA01021432"}

ClientBodies == BodiesOver(ClientIds)

ClientOutcomes == OutcomesOver(ClientIds)

\* requests.get(url) of get_latest_series: the per-series URL with latest=true
GetLatest(series_id) ==
    [method |-> "GET", endpoint |-> "timeseries/data/{seriesID}",
     seriesid |-> <<series_id>>, latest |-> TRUE]

\* requests.post(url, data=json.dumps(payload)) to the timeseries/data/ endpoint
Post(series_ids, latest) ==
    [method |-> "POST", endpoint |-> "timeseries/data/",
     seriesid |-> series_ids, latest |-> latest]

\* try: request; raise_for_status(); return response.json()
\* except RequestException: return None
TryJson(outcome) ==
    IF outcome.kind \in RequestExceptions THEN Return(None)
    ELSE Return(Some(outcome.body))

\* A get_series_data that tries once more after a RequestException
get_series_data_retry(series_ids, outcome) ==
    [sent |-> IF outcome.kind \in RequestExceptions
              THEN <<Post(series_ids, FALSE), Post(series_ids, FALSE)>>
              ELSE <<Post(series_ids, FALSE)>>,
     ret  |-> TryJson(outcome)]

\* get_series_data(series_ids, start_year, end_year, ...): the requests it
\* sends and what it returns, given what the HTTP exchange comes to
get_series_data(series_ids, outcome) ==
    [sent |-> <<Post(series_ids, FALSE)>>,
     ret  |-> TryJson(outcome)]

\* A get_latest_series that always takes the POST branch
get_latest_series_post(series_ids, outcome) ==
    [sent |-> <<Post(series_ids, TRUE)>>,
     ret  |-> TryJson(outcome)]

\* get_latest_series(series_ids)
get_latest_series(series_ids, outcome) ==
    IF Len(series_ids) = 1
    THEN [sent |-> <<GetLatest(series_ids[1])>>, ret |-> TryJson(outcome)]
    ELSE [sent |-> <<Post(series_ids, TRUE)>>, ret |-> TryJson(outcome)]

\* float(s) of the value strings: defined on the numeric ones, in hundredths
FloatTable == ("2.5" :> 250)

Numeric(s) == s \in DOMAIN FloatTable

float(s) == FloatTable[s]

\* float('nan'), which pandas puts where a float column has no value
NaN == [none |-> FALSE, nan |-> TRUE]

IsNaN(x) == "nan" \in DOMAIN x

\* json_data.get('status') == status
StatusIs(d, status) == "status" \in DOMAIN d /\ d["status"] = status

\* series.get('catalog', {}).get('series_title', '')
SeriesTitleOf(series) ==
    IF "catalog" \in DOMAIN series /\ "series_title" \in DOMAIN series["catalog"]
    THEN series["catalog"]["series_title"]
    ELSE ""

\* item.get('latest', False); Python's False is written "False"
LatestOf(item) == IF "latest" \in DOMAIN item THEN item["latest"] ELSE "False"

\* A row dict whose value is 0.0 where the item has no data
ClientRowZero(series, item) ==
    [series_id    |-> series["seriesID"],
     series_title |-> SeriesTitleOf(series),
     year         |-> item["year"],
     period       |-> item["period"],
     value        |-> IF item["value"] # "-" THEN Some(float(item["value"])) ELSE Some(0),
     latest       |-> LatestOf(item)]

\* The row dict built for one item of one series (the fields that carry data)
ClientRow(series, item) ==
    [series_id    |-> series["seriesID"],
     series_title |-> SeriesTitleOf(series),
     year         |-> item["year"],
     period       |-> item["period"],
     value        |-> IF item["value"] # "-" THEN Some(float(item["value"])) ELSE None,
     latest       |-> LatestOf(item)]

\* for item in series['data']: all_data.append(row), from item i on
RECURSIVE ClientItemLoop(_, _, _)
ClientItemLoop(all_data, series, i) ==
    IF i > Len(series["data"]) THEN all_data
    ELSE ClientItemLoop(Append(all_data, ClientRow(series, series["data"][i])), series, i + 1)

\* for series in json_data['Results']['series'], from series k on
RECURSIVE ClientSeriesLoop(_, _, _)
ClientSeriesLoop(all_data, series_list, k) ==
    IF k > Len(series_list) THEN all_data
    ELSE ClientSeriesLoop(ClientItemLoop(all_data, series_list[k], 1), series_list, k + 1)

\* pd.DataFrame(all_data): one row per dict, in order; a 'value' column that
\* holds at least one float becomes a float column, its None entries NaN, and
\* a column of None alone is left as it is
DataFrame(all_data) ==
    IF \E i \in 1..Len(all_data) : ~all_data[i].value.none
    THEN [i \in 1..Len(all_data) |->
            IF all_data[i].value.none
            THEN [all_data[i] EXCEPT !.value = NaN]
            ELSE all_data[i]]
    ELSE all_data

\* A parse_response_to_dataframe that drops the items whose value is '-'
parse_response_drop_missing(json_data) ==
    IF json_data.none THEN Raise("AttributeError")
    ELSE IF ~Truthy(json_data.val) \/ ~StatusIs(json_data.val, SUCCEEDED)
    THEN Return(None)
    ELSE IF "Results" \notin DOMAIN json_data.val THEN Raise("KeyError")
    ELSE Return(Some(SelectSeq(
            ClientSeriesLoop(<<>>, json_data.val["Results"]["series"], 1),
            LAMBDA row : ~row.value.none)))

\* parse_response_to_dataframe(json_data): json_data is None or a dict.
\* With json_data None the guard of line 111 is true and line 112 calls
\* None.get, which raises AttributeError.
parse_response_to_dataframe(json_data) ==
    IF json_data.none THEN Raise("AttributeError")
    ELSE IF ~Truthy(json_data.val) \/ ~StatusIs(json_data.val, SUCCEEDED)
    THEN Return(None)
    ELSE IF "Results" \notin DOMAIN json_data.val THEN Raise("KeyError")
    ELSE Return(Some(DataFrame(
            ClientSeriesLoop(<<>>, json_data.val["Results"]["series"], 1))))

---------------------------------------------------------------------------
(* fetch_atus_api.py: fetch_atus_data *)

\* A fetch_atus_data that returns whatever body it decoded
fetch_atus_data_any_status(series_ids, outcome) ==
    [sent |-> <<Post(series_ids, FALSE)>>,
     ret  |-> TryJson(outcome)]

\* fetch_atus_data(series_ids, start_year, end_year)
fetch_atus_data(series_ids, outcome) ==
    [sent |-> <<Post(series_ids, FALSE)>>,
     ret  |-> IF outcome.kind \in RequestExceptions THEN Return(None)
              ELSE IF "status" \notin DOMAIN outcome.body THEN Raise("KeyError")
              ELSE IF outcome.body["status"] = SUCCEEDED THEN Return(Some(outcome.body))
              ELSE Return(None)]

\* The row dict parse_atus_response builds for one item (the fields that
\* carry data); float(item['value']) is taken of every value
AtusRow(series, item) ==
    [series_id    |-> series["seriesID"],
     series_title |-> SeriesTitleOf(series),
     year         |-> item["year"],
     period       |-> item["period"],
     value        |-> Some(float(item["value"])),
     latest       |-> LatestOf(item)]

\* for item in series['data'], from item i on: float raises ValueError on the
\* first value that is not a number ('-'), and the loop ends there
RECURSIVE AtusItemLoop(_, _, _)
AtusItemLoop(acc, series, i) ==
    IF acc.raised # "" \/ i > Len(series["data"]) THEN acc
    ELSE IF ~Numeric(series["data"][i]["value"])
    THEN [raised |-> "ValueError", all_data |-> acc.all_data]
    ELSE AtusItemLoop(
            [raised |-> "", all_data |-> Append(acc.all_data, AtusRow(series, series["data"][i]))],
            series, i + 1)

\* for series in json_data['Results']['series'], from series k on
RECURSIVE AtusSeriesLoop(_, _, _)
AtusSeriesLoop(acc, series_list, k) ==
    IF acc.raised # "" \/ k > Len(series_list) THEN acc
    ELSE AtusSeriesLoop(AtusItemLoop(acc, series_list[k], 1), series_list, k + 1)

\* parse_atus_response(json_data)
parse_atus_response(json_data) ==
    IF json_data.none \/ ~Truthy(json_data.val) \/ "Results" \notin DOMAIN json_data.val
    THEN Return(None)
    ELSE LET acc == AtusSeriesLoop([raised |-> "", all_data |-> <<>>],
                                   json_data.val["Results"]["series"], 1)
         IN  IF acc.raised # "" THEN Raise(acc.raised)
             ELSE Return(Some(DataFrame(acc.all_data)))

\* The series IDs of the two requests of the script
test_series == <<"CUUR0000SA0">>

atus_series_ids ==
    <<"TUU10101AA01000000", "TUU10301AA01000000", "TUU10801AA01000000",
      "TUU10802AA01000000", "TUU10401AA01000000">>

---------------------------------------------------------------------------
(* Dicts of dicts, and what the callers of get_series_data share *)

\* d[k] = v
Put(d, k, v) == [x \in DOMAIN d \cup {k} |-> IF x = k THEN v ELSE d[x]]

\* for age in ages: for activity in activities: all_series.append(d[age][activity])
Flatten(d, ages, activities) ==
    [i \in 1..(Len(ages) * Len(activities)) |->
        d[ages[((i - 1) \div Len(activities)) + 1]][activities[((i - 1) % Len(activities)) + 1]]]

\* response and response.get('status') == 'REQUEST_SUCCEEDED'
Usable(response) == TruthyOpt(response) /\ StatusIs(response.val, SUCCEEDED)

\* row['value'] * 60
Times60(v) == IF IsNaN(v) THEN NaN ELSE Some(v.val * 60)

\* v > 0 of a float: False for NaN
Positive(v) == ~IsNaN(v) /\ v.val > 0

\* {'hours': ..., 'minutes': ..., 'series_id': ...}
Entry(value, series_id) ==
    [hours |-> value, minutes |-> Times60(value), series_id |-> series_id]

\* if age not in results: results[age] = {}; results[age][activity] = entry
PutEntry(res, age, activity, entry) ==
    Put(res, age, Put(IF age \in DOMAIN res THEN res[age] ELSE EmptyDict, activity, entry))

\* What the server's answer is worth to a caller of the API, whatever the
\* caller makes of it: "succeeded" for a decoded body with status
\* REQUEST_SUCCEEDED, "failed" for everything else
Answer(outcome) ==
    IF outcome.kind = "ok" /\ StatusIs(outcome.body, SUCCEEDED) THEN "succeeded" ELSE "failed"

\* The common head of the fetch functions: the request, then the parse of a
\* usable response. df is None when there is nothing to iterate over.
FetchFrame(series_ids, outcome) ==
    LET r == get_series_data(series_ids, outcome)
        p == IF Usable(r.ret.value) THEN parse_response_to_dataframe(r.ret.value)
             ELSE Return(None)
    IN  [sent |-> r.sent, raised |-> p.raised,
         df |-> IF p.raised = "" /\ ~p.value.none THEN p.value.val ELSE <<>>]

---------------------------------------------------------------------------
(* create_api_visualizations_final.py *)

ApiVisAges == <<"All ages", "15-24", "25-34", "35-44", "45-54", "55-64", "65+">>

ApiVisActivities == <<"watching_tv", "playing_games", "computer_excl_games", "total_leisure">>

known_overall ==
    [watching_tv |-> "TUU10101AA01014236", playing_games |-> "TUU10101AA01005910",
     computer_excl_games |-> "TUU10101AA01006114", total_leisure |-> "TUU10101AA01013585"]

age_demographics ==
    ("15-24" :> "32") @@ ("25-34" :> "33") @@ ("35-44" :> "34") @@
    ("45-54" :> "35") @@ ("55-64" :> "36") @@ ("65+" :> "37")

activity_codes ==
    [watching_tv |-> "120304", playing_games |-> "120307",
     computer_excl_games |-> "120308", total_leisure |-> "120000"]

get_all_series_ids ==
    [age \in {"All ages"} \cup DOMAIN age_demographics |->
        IF age = "All ages" THEN known_overall
        ELSE [activity \in DOMAIN activity_codes |->
                "TUU" \o age_demographics[age] \o "01AA0101" \o activity_codes[activity]]]

\* series_mapping.get(series_id, {}) with the defaults of info.get: the last
\* (age, activity) the flattening loop stored under the ID, or 'Unknown'
ApiVisInfo(series_id) ==
    LET all_series == Flatten(get_all_series_ids, ApiVisAges, ApiVisActivities)
        hits == {i \in 1..Len(all_series) : all_series[i] = series_id}
        last == CHOOSE i \in hits : \A j \in hits : j <= i
    IN  IF hits = {} THEN [age |-> "Unknown", activity |-> "Unknown"]
        ELSE [age |-> ApiVisAges[((last - 1) \div Len(ApiVisActivities)) + 1],
              activity |-> ApiVisActivities[((last - 1) % Len(ApiVisActivities)) + 1]]

\* for _, row in df.iterrows(): if row['value'] is not None: results[age][activity] = ...
RECURSIVE ApiVisRowLoop(_, _, _)
ApiVisRowLoop(res, df, i) ==
    IF i > Len(df) THEN res
    ELSE IF df[i].value.none THEN ApiVisRowLoop(res, df, i + 1)
    ELSE LET info == ApiVisInfo(df[i].series_id)
         IN  ApiVisRowLoop(
                PutEntry(res, info.age, info.activity, Entry(df[i].value, df[i].series_id)),
                df, i + 1)

\* fetch_data_with_fallback up to line 134: the batch request for all series
fetch_batch(outcome) ==
    LET f == FetchFrame(Flatten(get_all_series_ids, ApiVisAges, ApiVisActivities), outcome)
    IN  [sent |-> f.sent, raised |-> f.raised,
         results |-> ApiVisRowLoop(EmptyDict, f.df, 1)]

\* A fetch_data_with_fallback that searches for additional series whatever
\* the batch produced
NeedsFallbackAlways(res) == TRUE

\* if len(results) <= 1
NeedsFallback(res) == Cardinality(DOMAIN res) <= 1

\* fetch_data_with_fallback, lines 146-160: the request for the one
\* additional series and the entry made of the first row of its table
fetch_fallback(res, outcome) ==
    LET series_id == "TUU10101AA01021432"
        f == FetchFrame(<<series_id>>, outcome)
    IN  [sent |-> f.sent, raised |-> f.raised,
         results |-> IF Len(f.df) > 0 /\ ~f.df[1].value.none
                     THEN PutEntry(res, "15-24", "computer_excl_games",
                                   Entry(f.df[1].value, series_id))
                     ELSE res]

\* A main that draws the charts whatever was fetched
ApiVisShouldPresentAlways(res) == TRUE

\* main: if results:
ApiVisShouldPresent(res) == Truthy(res)

\* The calls of main's if-branch, in order
ApiVisPresentation ==
    <<"create_main_comparison_chart", "create_screen_time_breakdown",
      "create_available_age_comparison", "save_results">>

\* The file a call of the if-branch writes, given results (rendering itself
\* is not modelled)
ApiVisFiles(fn, res) ==
    CASE fn = "create_main_comparison_chart" ->
            IF "All ages" \in DOMAIN res
            THEN {"visualizations/api_gaming_computer_separated.png"} ELSE {}
      [] fn = "create_screen_time_breakdown" ->
            IF "All ages" \in DOMAIN res
            THEN {"visualizations/api_screen_time_breakdown.png"} ELSE {}
      [] fn = "create_available_age_comparison" ->
            IF Cardinality(DOMAIN res \ {"Unknown"}) > 1
            THEN {"visualizations/api_age_comparison.png"} ELSE {}
      [] fn = "save_results" -> {"data/api_visualization_data_2024.json"}

---------------------------------------------------------------------------
(* create_participant_comparison.py *)

age_order == <<"15-24", "25-34", "35-44", "45-54", "55-64", "65+">>

ComparisonActivities == <<"watching_tv", "playing_games", "computer_excl_games">>

a01_series ==
    ("15-24" :> [watching_tv |-> "TUU10101AA01014264", playing_games |-> "TUU10101AA01021211",
                 computer_excl_games |-> "TUU10101AA01021432"]) @@
    ("25-34" :> [watching_tv |-> "TUU10101AA01014280", playing_games |-> "TUU10101AA01005928",
                 computer_excl_games |-> "TUU10101AA01006132"]) @@
    ("35-44" :> [watching_tv |-> "TUU10101AA01014296", playing_games |-> "TUU10101AA01005944",
                 computer_excl_games |-> "TUU10101AA01006148"]) @@
    ("45-54" :> [watching_tv |-> "TUU10101AA01014297", playing_games |-> "TUU10101AA01005945",
                 computer_excl_games |-> "TUU10101AA01006149"]) @@
    ("55-64" :> [watching_tv |-> "TUU10101AA01014313", playing_games |-> "TUU10101AA01005961",
                 computer_excl_games |-> "TUU10101AA01006165"]) @@
    ("65+"   :> [watching_tv |-> "TUU10101AA01014329", playing_games |-> "TUU10101AA01005962",
                 computer_excl_games |-> "TUU10101AA01006166"])

\* A replace that finds nothing to replace
ReplaceNowhere(s, old, new) == s

\* str.replace(old, new): every non-overlapping occurrence, left to right
RECURSIVE Replace(_, _, _)
Replace(s, old, new) ==
    IF Len(s) < Len(old) THEN s
    ELSE IF SubSeq(s, 1, Len(old)) = old
    THEN new \o Replace(SubSeq(s, Len(old) + 1, Len(s)), old, new)
    ELSE SubSeq(s, 1, 1) \o Replace(SubSeq(s, 2, Len(s)), old, new)

a02_series ==
    [age \in DOMAIN a01_series |->
        [activity \in DOMAIN a01_series[age] |->
            Replace(a01_series[age][activity], "AA01", "AA02")]]

\* series_mapping.get(series_id, {}): the A01 loop fills the mapping first,
\* the A02 loop second, so an ID of both is left as A02
ComparisonInfo(series_id) ==
    LET a01 == Flatten(a01_series, age_order, ComparisonActivities)
        a02 == Flatten(a02_series, age_order, ComparisonActivities)
        all_series == a01 \o a02
        hits == {i \in 1..Len(all_series) : all_series[i] = series_id}
        last == CHOOSE i \in hits : \A j \in hits : j <= i
        at == ((last - 1) % Len(a01)) + 1
    IN  IF hits = {} THEN EmptyDict
        ELSE [age |-> age_order[((at - 1) \div Len(ComparisonActivities)) + 1],
              activity |-> ComparisonActivities[((at - 1) % Len(ComparisonActivities)) + 1],
              type |-> IF last > Len(a01) THEN "A02" ELSE "A01"]

\* for _, row in df.iterrows(): if row['value'] is not None: if data_type and age: ...
RECURSIVE ComparisonRowLoop(_, _, _)
ComparisonRowLoop(res, df, i) ==
    IF i > Len(df) THEN res
    ELSE LET info == ComparisonInfo(df[i].series_id)
         IN  IF df[i].value.none \/ ~Truthy(info) THEN ComparisonRowLoop(res, df, i + 1)
             ELSE ComparisonRowLoop(
                    Put(res, info.type,
                        PutEntry(res[info.type], info.age, info.activity,
                                 Entry(df[i].value, df[i].series_id))),
                    df, i + 1)

\* fetch_comparison_data(client, a01_series, a02_series)
fetch_comparison_data(outcome) ==
    LET f == FetchFrame(Flatten(a01_series, age_order, ComparisonActivities)
                        \o Flatten(a02_series, age_order, ComparisonActivities), outcome)
    IN  [sent |-> f.sent, raised |-> f.raised,
         results |-> ComparisonRowLoop([A01 |-> EmptyDict, A02 |-> EmptyDict], f.df, 1)]

\* main: if results['A01'] and results['A02']:
ComparisonShouldPresent(res) == Truthy(res["A01"]) /\ Truthy(res["A02"])

ComparisonPresentation ==
    <<"create_participant_comparison_chart", "create_multiplier_chart">>

\* a01_data.get(activity, {}).get('minutes', 0)
MinutesOf(age_data, activity) ==
    IF activity \in DOMAIN age_data THEN age_data[activity].minutes ELSE Some(0)

\* create_multiplier_chart, lines 260-277: the age groups it charts
MultiplierAgeGroups(res) ==
    SelectSeq(age_order, LAMBDA age :
        /\ age \in DOMAIN res["A01"] /\ age \in DOMAIN res["A02"]
        /\ \E activity \in {"watching_tv", "playing_games", "computer_excl_games"} :
              Positive(MinutesOf(res["A01"][age], activity)))

\* What a / b is evaluated with a zero divisor: ZeroDivisionError for Python
\* numbers, inf or nan with a RuntimeWarning for numpy floats
ZeroDivision == [none |-> FALSE, zerodiv |-> TRUE]

\* a / b of two floats, in hundredths
Divide(a, b) ==
    IF IsNaN(a) \/ IsNaN(b) THEN NaN
    ELSE IF b.val = 0 THEN ZeroDivision
    ELSE Some((a.val * 100) \div b.val)

\* x * 100
Percent(x) == IF "val" \in DOMAIN x THEN Some(x.val * 100) ELSE x

\* A multiplier computed without looking at the divisor
MultiplierUnguarded(a02, a01) == Divide(a02, a01)

\* tv_a02 / tv_a01 if tv_a01 > 0 else 0
Multiplier(a02, a01) == IF Positive(a01) THEN Divide(a02, a01) ELSE Some(0)

\* create_multiplier_chart, lines 260-277, from age i of age_order on
RECURSIVE MultiplierLoop(_, _, _)
MultiplierLoop(acc, res, i) ==
    IF i > Len(age_order) THEN acc
    ELSE LET age == age_order[i]
         IN  IF ~(age \in DOMAIN res["A01"] /\ age \in DOMAIN res["A02"])
             THEN MultiplierLoop(acc, res, i + 1)
             ELSE LET a01_data     == res["A01"][age]
                      a02_data     == res["A02"][age]
                      tv_a01       == MinutesOf(a01_data, "watching_tv")
                      tv_a02       == MinutesOf(a02_data, "watching_tv")
                      gaming_a01   == MinutesOf(a01_data, "playing_games")
                      gaming_a02   == MinutesOf(a02_data, "playing_games")
                      computer_a01 == MinutesOf(a01_data, "computer_excl_games")
                      computer_a02 == MinutesOf(a02_data, "computer_excl_games")
                  IN  IF Positive(tv_a01) \/ Positive(gaming_a01) \/ Positive(computer_a01)
                      THEN MultiplierLoop(
                              [age_groups    |-> Append(acc.age_groups, age),
                               tv_mult       |-> Append(acc.tv_mult, Multiplier(tv_a02, tv_a01)),
                               gaming_mult   |-> Append(acc.gaming_mult,
                                                        Multiplier(gaming_a02, gaming_a01)),
                               computer_mult |-> Append(acc.computer_mult,
                                                        Multiplier(computer_a02, computer_a01))],
                              res, i + 1)
                      ELSE MultiplierLoop(acc, res, i + 1)

\* create_multiplier_chart(results, age_order): the lists it computes, and
\* whether it goes on to plot and save them (if not age_groups: return)
create_multiplier_chart(res) ==
    LET lists == MultiplierLoop([age_groups |-> <<>>, tv_mult |-> <<>>,
                                 gaming_mult |-> <<>>, computer_mult |-> <<>>], res, 1)
    IN  [lists |-> lists, plotted |-> lists.age_groups # <<>>]

\* main, lines 365-372: the lines printed for one age group, from activity k on
RECURSIVE SummaryActivityLoop(_, _, _, _)
SummaryActivityLoop(printed, res, age, k) ==
    IF k > Len(ComparisonActivities) THEN printed
    ELSE LET activity == ComparisonActivities[k]
             a01_val  == MinutesOf(res["A01"][age], activity)
             a02_val  == MinutesOf(res["A02"][age], activity)
         IN  IF Positive(a01_val)
             THEN SummaryActivityLoop(
                    Append(printed,
                           [age |-> age, activity |-> activity,
                            mult |-> Divide(a02_val, a01_val),
                            participation |-> IF Positive(a02_val)
                                              THEN Percent(Divide(a01_val, a02_val))
                                              ELSE Some(0)]),
                    res, age, k + 1)
             ELSE SummaryActivityLoop(printed, res, age, k + 1)

\* main, lines 362-372: the summary loop, from age i of age_order on
RECURSIVE SummaryLoop(_, _, _)
SummaryLoop(printed, res, i) ==
    IF i > Len(age_order) THEN printed
    ELSE IF age_order[i] \in DOMAIN res["A01"] /\ age_order[i] \in DOMAIN res["A02"]
    THEN SummaryLoop(SummaryActivityLoop(printed, res, age_order[i], 1), res, i + 1)
    ELSE SummaryLoop(printed, res, i + 1)

ComparisonFiles(fn, res) ==
    CASE fn = "create_participant_comparison_chart" ->
            {"visualizations/api_screen_time_participant_comparison.png"}
      [] fn = "create_multiplier_chart" ->
            IF create_multiplier_chart(res).plotted
            THEN {"visualizations/api_participation_multiplier.png"} ELSE {}

---------------------------------------------------------------------------
(* create_final_age_visualizations.py *)

get_discovered_series ==
    ("All ages" :> [watching_tv |-> "TUU10101AA01014236", playing_games |-> "TUU10101AA01005910",
                    computer_excl_games |-> "TUU10101AA01006114", total_leisure |-> "TUU10101AA01013585"]) @@
    ("15-24" :> [watching_tv |-> "TUU10101AA01014264", playing_games |-> "TUU10101AA01021211",
                 computer_excl_games |-> "TUU10101AA01021432", total_leisure |-> "TUU10101AA01013706"]) @@
    ("25-34" :> [watching_tv |-> "TUU10101AA01014280", playing_games |-> "TUU10101AA01005928",
                 computer_excl_games |-> "TUU10101AA01006132", total_leisure |-> "TUU10101AA01013656"]) @@
    ("35-44" :> [watching_tv |-> "TUU10101AA01014296", playing_games |-> "TUU10101AA01005944",
                 computer_excl_games |-> "TUU10101AA01006148", total_leisure |-> "TUU10101AA01013672"]) @@
    ("45-54" :> [watching_tv |-> "TUU10101AA01014297", playing_games |-> "TUU10101AA01005945",
                 computer_excl_games |-> "TUU10101AA01006149", total_leisure |-> "TUU10101AA01013673"]) @@
    ("55-64" :> [watching_tv |-> "TUU10101AA01014313", playing_games |-> "TUU10101AA01005961",
                 computer_excl_games |-> "TUU10101AA01006165", total_leisure |-> "TUU10101AA01013689"]) @@
    ("65+"   :> [watching_tv |-> "TUU10101AA01014329", playing_games |-> "TUU10101AA01005962",
                 computer_excl_games |-> "TUU10101AA01006166", total_leisure |-> "TUU10101AA01013705"])

\* series_mapping.get(series_id, {}) followed by info.get('age') and
\* info.get('activity'): the last (age, activity) stored under the ID, or
\* None for both (Python's None as a dict key is written "None")
FinalAgeInfo(series_id) ==
    LET all_series == Flatten(get_discovered_series, ApiVisAges, ApiVisActivities)
        hits == {i \in 1..Len(all_series) : all_series[i] = series_id}
        last == CHOOSE i \in hits : \A j \in hits : j <= i
    IN  IF hits = {} THEN [age |-> "None", activity |-> "None"]
        ELSE [age |-> ApiVisAges[((last - 1) \div Len(ApiVisActivities)) + 1],
              activity |-> ApiVisActivities[((last - 1) % Len(ApiVisActivities)) + 1]]

\* for _, row in df.iterrows(): if row['value'] is not None: results[age][activity] = ...
RECURSIVE FinalAgeRowLoop(_, _, _)
FinalAgeRowLoop(res, df, i) ==
    IF i > Len(df) THEN res
    ELSE IF df[i].value.none THEN FinalAgeRowLoop(res, df, i + 1)
    ELSE LET info == FinalAgeInfo(df[i].series_id)
         IN  FinalAgeRowLoop(
                PutEntry(res, info.age, info.activity, Entry(df[i].value, df[i].series_id)),
                df, i + 1)

\* fetch_all_age_data(client, series_dict)
fetch_all_age_data(outcome) ==
    LET f == FetchFrame(Flatten(get_discovered_series, ApiVisAges, ApiVisActivities), outcome)
    IN  [sent |-> f.sent, raised |-> f.raised,
         results |-> FinalAgeRowLoop(EmptyDict, f.df, 1)]

\* main: if results:
FinalAgeShouldPresent(res) == Truthy(res)

\* The calls of main's if-branch, in order
FinalAgePresentation ==
    <<"create_age_comparison_chart", "create_screen_time_by_age_chart",
      "create_gaming_decline_chart", "create_leisure_proportion_chart", "save_final_data">>

\* any(act in age_data for act in ['watching_tv', 'playing_games', 'computer_excl_games'])
AnyScreenActivity(age_data) ==
    DOMAIN age_data \cap {"watching_tv", "playing_games", "computer_excl_games"} # {}

\* The file a call of the if-branch writes, given results: each chart is
\* saved unless its list of age groups is empty (rendering is not modelled)
FinalAgeFiles(fn, res) ==
    LET ages == {age_order[i] : i \in 1..Len(age_order)} \cap DOMAIN res
    IN  CASE fn = "create_age_comparison_chart" ->
                IF \E age \in (ages \cup ({"All ages"} \cap DOMAIN res)) : AnyScreenActivity(res[age])
                THEN {"visualizations/api_age_gaming_computer_final.png"} ELSE {}
          [] fn = "create_screen_time_by_age_chart" ->
                IF \E age \in ages :
                      AnyScreenActivity(res[age]) /\ "total_leisure" \in DOMAIN res[age]
                THEN {"visualizations/api_screen_time_age_stacked_final.png"} ELSE {}
          [] fn = "create_gaming_decline_chart" ->
                IF \E age \in ages : "playing_games" \in DOMAIN res[age]
                THEN {"visualizations/api_gaming_age_decline_final.png"} ELSE {}
          [] fn = "create_leisure_proportion_chart" ->
                IF \E age \in ages :
                      /\ "total_leisure" \in DOMAIN res[age]
                      /\ Positive(res[age]["total_leisure"].minutes)
                THEN {"visualizations/api_screen_time_proportion_of_leisure.png"} ELSE {}
          [] fn = "save_final_data" -> {"data/final_age_visualization_data.json"}

---------------------------------------------------------------------------
(* check_a02_availability.py *)

\* test_series.values(), in order, each requested alone
a02_test_series ==
    <<"TUU10101AA02014236", "TUU10101AA02005910", "TUU10101AA02006114",
      "TUU10101AA02014264", "TUU10101AA02021211", "TUU10101AA02021432">>

simple_a02 == <<"TUU10101AA02120303", "TUU10101AA02120307", "TUU10101AA02120308">>

\* The series IDs of the k-th request of check_a02_series
CheckA02Request(k) ==
    IF k <= Len(a02_test_series) THEN <<a02_test_series[k]>> ELSE simple_a02

---------------------------------------------------------------------------
(* extract_atus_final.py *)

\* The text of a page, as far as the extractors read it: the sentences the
\* regular expressions of extract_key_statistics are searched in, and the
\* lines the table extractors split it into. A sentence is matched by at most
\* one of the expressions ("" for none) and carries the numbers its groups
\* capture: \d+\.\d+ in hundredths, \d+ as it is.
Sentences ==
    {[pattern |-> "tv", groups |-> <<260>>],
     [pattern |-> "tv", groups |-> <<280>>],
     [pattern |-> "leisure", groups |-> <<510>>],
     [pattern |-> "gaming", groups |-> <<37>>],
     [pattern |-> "social", groups |-> <<35>>],
     [pattern |-> "gender", groups |-> <<550, 490>>],
     [pattern |-> "", groups |-> <<>>]}

\* s contains sub (Python's `sub in s`)
Contains(s, sub) ==
    \E i \in 1..(Len(s) - Len(sub) + 1) : SubSeq(s, i, i + Len(sub) - 1) = sub

\* The k numbers \d+\.\d+ of a table line, in hundredths
NumbersOf(k) == [i \in 1..k |-> 100 * i + 25]

\* A line of a table page: the text before its first number, and its numbers
Lines ==
    {[text |-> t, numbers |-> NumbersOf(k)] :
        t \in {"Men ....", "65 to 74 years ..", "Employed ...."},
        k \in {0, 2, 6, 7, 8, 15, 16}}
    \cup {[text |-> "  ", numbers |-> <<>>]}

BlankPage == [sentences |-> <<>>, lines |-> <<>>]

SummaryPages == {[sentences |-> t, lines |-> <<>>] : t \in SeqsUpTo(Sentences, MaxSentences)}

TablePages == {[sentences |-> <<>>, lines |-> l] : l \in SeqsUpTo(Lines, MaxLines)}

\* A PDF of n pages whose page at is `page`
Pdf(n, at, page) == [i \in 1..n |-> IF i = at THEN page ELSE BlankPage]

\* re.search(pattern, text): the groups of the first match, or None
Search(pattern, sentences) ==
    LET hits == {i \in 1..Len(sentences) : sentences[i].pattern = pattern}
    IN  IF hits = {} THEN None
        ELSE Some(sentences[CHOOSE i \in hits : \A j \in hits : i <= j].groups)

\* if m: key_stats[key] = m.group(g)
PutGroup(key_stats, key, m, g) ==
    IF m.none THEN key_stats ELSE Put(key_stats, key, m.val[g])

\* An extract_key_statistics that stores 0 for a gaming pattern without match
extract_key_statistics_default(pdf) ==
    IF Len(pdf) < 2 THEN [ret |-> Raise("IndexError"), doc |-> "open"]
    ELSE LET text == pdf[2].sentences
             s1 == PutGroup(EmptyDict, "tv_hours", Search("tv", text), 1)
             s2 == PutGroup(s1, "total_leisure_hours", Search("leisure", text), 1)
             s3 == Put(s2, "gaming_minutes",
                       IF Search("gaming", text).none THEN 0 ELSE Search("gaming", text).val[1])
             s4 == PutGroup(s3, "socializing_minutes", Search("social", text), 1)
             s5 == PutGroup(s4, "men_leisure_hours", Search("gender", text), 1)
             s6 == PutGroup(s5, "women_leisure_hours", Search("gender", text), 2)
         IN  [ret |-> Return(Some(s6)), doc |-> "closed"]

\* extract_key_statistics(pdf_path): what it returns or raises, and the state
\* it leaves the document in. doc[1] raises IndexError when the document has
\* no second page, and the doc.close() of line 42 is not reached.
extract_key_statistics(pdf) ==
    IF Len(pdf) < 2 THEN [ret |-> Raise("IndexError"), doc |-> "open"]
    ELSE LET text == pdf[2].sentences
             s1 == PutGroup(EmptyDict, "tv_hours", Search("tv", text), 1)
             s2 == PutGroup(s1, "total_leisure_hours", Search("leisure", text), 1)
             s3 == PutGroup(s2, "gaming_minutes", Search("gaming", text), 1)
             s4 == PutGroup(s3, "socializing_minutes", Search("social", text), 1)
             s5 == PutGroup(s4, "men_leisure_hours", Search("gender", text), 1)
             s6 == PutGroup(s5, "women_leisure_hours", Search("gender", text), 2)
         IN  [ret |-> Return(Some(s6)), doc |-> "closed"]

Keywords11A ==
    {"Total, 15 years and over", "Men", "Women", "to 24 years", "to 34 years",
     "to 44 years", "to 54 years", "to 64 years", "65 to 74 years",
     "75 years and over", "Less than a high school", "High school grad",
     "Bachelor's degree"}

Keywords11B ==
    {"Men", "Women", "Total, 15 years and over", "to 19 years", "to 24 years",
     "to 34 years", "to 44 years", "to 54 years", "to 64 years"}

\* str.strip() of the text before the first number: the model's texts end in
\* blanks and dots, and only the blanks go
RECURSIVE Strip(_)
Strip(s) ==
    IF Len(s) > 0 /\ SubSeq(s, Len(s), Len(s)) = " " THEN Strip(SubSeq(s, 1, Len(s) - 1))
    ELSE IF Len(s) > 0 /\ SubSeq(s, 1, 1) = " " THEN Strip(SubSeq(s, 2, Len(s)))
    ELSE s

\* numbers[i] if len(numbers) > i else 0 (i counted from 1)
NumberOr0(numbers, i) == IF Len(numbers) >= i THEN numbers[i] ELSE 0

\* A row of Table 11A that leaves the eighth number out
Row11ANoOther(line) ==
    [demographic |-> Strip(line.text),
     total_leisure |-> line.numbers[1],
     sports |-> NumberOr0(line.numbers, 2),
     socializing |-> NumberOr0(line.numbers, 3),
     tv |-> NumberOr0(line.numbers, 4),
     reading |-> NumberOr0(line.numbers, 5),
     relaxing |-> NumberOr0(line.numbers, 6),
     gaming |-> NumberOr0(line.numbers, 7),
     other |-> 0]

\* The row of Table 11A made of a line
Row11A(line) ==
    [demographic |-> Strip(line.text),
     total_leisure |-> line.numbers[1],
     sports |-> NumberOr0(line.numbers, 2),
     socializing |-> NumberOr0(line.numbers, 3),
     tv |-> NumberOr0(line.numbers, 4),
     reading |-> NumberOr0(line.numbers, 5),
     relaxing |-> NumberOr0(line.numbers, 6),
     gaming |-> NumberOr0(line.numbers, 7),
     other |-> NumberOr0(line.numbers, 8)]

\* for line in lines, from line i on
RECURSIVE Loop11A(_, _, _)
Loop11A(data_rows, lines, i) ==
    IF i > Len(lines) THEN data_rows
    ELSE LET line == lines[i]
         IN  IF Strip(line.text) = "" /\ line.numbers = <<>>
             THEN Loop11A(data_rows, lines, i + 1)
             ELSE IF (\E keyword \in Keywords11A : Contains(line.text, keyword))
                     /\ Len(line.numbers) >= 7
             THEN Loop11A(Append(data_rows, Row11A(line)), lines, i + 1)
             ELSE Loop11A(data_rows, lines, i + 1)

\* extract_table_11a_data(pdf_path, page_num): doc[page_num - 1] raises
\* IndexError when the document has fewer than page_num pages
extract_table_11a_data(pdf, page_num) ==
    IF Len(pdf) < page_num THEN [ret |-> Raise("IndexError"), doc |-> "open"]
    ELSE [ret |-> Return(Some(Loop11A(<<>>, pdf[page_num].lines, 1))), doc |-> "closed"]

\* str.replace('.', '')
RECURSIVE RemoveDots(_)
RemoveDots(s) ==
    IF Len(s) = 0 THEN s
    ELSE IF SubSeq(s, 1, 1) = "." THEN RemoveDots(SubSeq(s, 2, Len(s)))
    ELSE SubSeq(s, 1, 1) \o RemoveDots(SubSeq(s, 2, Len(s)))

\* A row of Table 11B that reads the pairs as (weekend, weekday)
Row11BSwapped(line) ==
    [demographic |-> RemoveDots(Strip(line.text)),
     total_weekday |-> line.numbers[2], total_weekend |-> line.numbers[1],
     sports_weekday |-> line.numbers[4], sports_weekend |-> line.numbers[3],
     socializing_weekday |-> line.numbers[6], socializing_weekend |-> line.numbers[5],
     tv_weekday |-> line.numbers[8], tv_weekend |-> line.numbers[7],
     reading_weekday |-> line.numbers[10], reading_weekend |-> line.numbers[9],
     relaxing_weekday |-> line.numbers[12], relaxing_weekend |-> line.numbers[11],
     gaming_weekday |-> line.numbers[14], gaming_weekend |-> line.numbers[13],
     other_weekday |-> line.numbers[16], other_weekend |-> line.numbers[15]]

\* The row of Table 11B made of a line
Row11B(line) ==
    [demographic |-> RemoveDots(Strip(line.text)),
     total_weekday |-> line.numbers[1], total_weekend |-> line.numbers[2],
     sports_weekday |-> line.numbers[3], sports_weekend |-> line.numbers[4],
     socializing_weekday |-> line.numbers[5], socializing_weekend |-> line.numbers[6],
     tv_weekday |-> line.numbers[7], tv_weekend |-> line.numbers[8],
     reading_weekday |-> line.numbers[9], reading_weekend |-> line.numbers[10],
     relaxing_weekday |-> line.numbers[11], relaxing_weekend |-> line.numbers[12],
     gaming_weekday |-> line.numbers[13], gaming_weekend |-> line.numbers[14],
     other_weekday |-> line.numbers[15], other_weekend |-> line.numbers[16]]

\* for i, line in enumerate(lines), from line i on
RECURSIVE Loop11B(_, _, _)
Loop11B(data_rows, lines, i) ==
    IF i > Len(lines) THEN data_rows
    ELSE LET line == lines[i]
         IN  IF (\E keyword \in Keywords11B : Contains(line.text, keyword))
                /\ Len(line.numbers) >= 2 /\ Len(line.numbers) >= 16
             THEN Loop11B(Append(data_rows, Row11B(line)), lines, i + 1)
             ELSE Loop11B(data_rows, lines, i + 1)

\* extract_table_11b_data(pdf_path, page_num)
extract_table_11b_data(pdf, page_num) ==
    IF Len(pdf) < page_num THEN [ret |-> Raise("IndexError"), doc |-> "open"]
    ELSE [ret |-> Return(Some(Loop11B(<<>>, pdf[page_num].lines, 1))), doc |-> "closed"]

\* Convert hours to minutes, but only the TV statistic
HoursToMinutesTvOnly(key_stats) ==
    IF "tv_hours" \in DOMAIN key_stats
    THEN Put(key_stats, "tv_minutes", key_stats["tv_hours"] * 60)
    ELSE key_stats

\* Lines 144-147: key_stats['tv_minutes'] and key_stats['total_leisure_minutes']
\* are set from the hours entries the dict has (hours and minutes both in
\* hundredths)
HoursToMinutes(key_stats) ==
    LET k1 == IF "tv_hours" \in DOMAIN key_stats
              THEN Put(key_stats, "tv_minutes", key_stats["tv_hours"] * 60)
              ELSE key_stats
    IN  IF "total_leisure_hours" \in DOMAIN k1
        THEN Put(k1, "total_leisure_minutes", k1["total_leisure_hours"] * 60)
        ELSE k1

\* (part / total * 100).round(2) of two columns of a row, in hundredths of a
\* percent; a zero total gives inf or NaN in pandas, never an exception
PctOfLeisure(part, total) ==
    IF total = 0 THEN NaN
    ELSE Some((2 * part * 10000 + total) \div (2 * total))

\* Lines 158-160: the row with its three *_pct_of_leisure columns
Enhanced(row) ==
    [col \in DOMAIN row \cup {"gaming_pct_of_leisure", "tv_pct_of_leisure",
                              "socializing_pct_of_leisure"} |->
        CASE col = "gaming_pct_of_leisure" -> PctOfLeisure(row.gaming, row.total_leisure)
          [] col = "tv_pct_of_leisure" -> PctOfLeisure(row.tv, row.total_leisure)
          [] col = "socializing_pct_of_leisure" ->
                PctOfLeisure(row.socializing, row.total_leisure)
          [] OTHER -> row[col]]

EnhancedTable(table_11a_df) == [i \in 1..Len(table_11a_df) |-> Enhanced(table_11a_df[i])]

\* df.to_csv(path, index=False): the file and the rows it receives
ToCsv(path, rows) == [path |-> path, rows |-> rows]

\* A saving of Table 11A that adds the percentage columns before the first file
SaveTable11AEnhancedFirst(table_11a_df) ==
    IF table_11a_df = <<>> THEN <<>>
    ELSE <<ToCsv("data/leisure_by_demographics.csv", EnhancedTable(table_11a_df)),
           ToCsv("data/leisure_analysis.csv", EnhancedTable(table_11a_df))>>

\* Lines 154-163: the files written for Table 11A, in order
SaveTable11A(table_11a_df) ==
    IF table_11a_df = <<>> THEN <<>>
    ELSE <<ToCsv("data/leisure_by_demographics.csv", table_11a_df),
           ToCsv("data/leisure_analysis.csv", EnhancedTable(table_11a_df))>>

\* Lines 166-167: the file written for Table 11B
SaveTable11B(table_11b_df) ==
    IF table_11b_df = <<>> THEN <<>>
    ELSE <<ToCsv("data/leisure_by_day_type.csv", table_11b_df)>>

\* process_and_save_data(key_stats, table_11a_df, table_11b_df): the dict and
\* the table it leaves behind (both are changed in place) and the files it
\* writes, in order. pd.DataFrame([key_stats]) has one row whatever the dict
\* holds, so key_statistics.csv is written for an empty dict too. The data
\* directory exists: main() creates it before the call.
process_and_save_data(key_stats, table_11a_df, table_11b_df) ==
    LET stats == HoursToMinutes(key_stats)
    IN  [key_stats |-> stats,
         table_11a_df |-> IF table_11a_df = <<>> THEN table_11a_df
                          ELSE EnhancedTable(table_11a_df),
         csv |-> <<ToCsv("data/key_statistics.csv", <<stats>>)>>
                 \o SaveTable11A(table_11a_df)
                 \o SaveTable11B(table_11b_df)]

---------------------------------------------------------------------------
(* scrape_atus.py *)

\* The lines all_text.split('\n') can hold
ScrapeLines ==
    {"Sleeping 8:30", "Sleeping.. 0:00", "Sleeping 7:45", "Working 3:15",
     "Eating... 3:15", "9:05", "Table 1", " "}

Digits == "0123456789"

\* c is a character that \d matches
IsDigit(c) == Len(c) = 1 /\ Contains(Digits, c)

\* int(s) of a string of digits
RECURSIVE IntOf(_)
IntOf(s) ==
    IF Len(s) = 0 THEN 0
    ELSE LET last == SubSeq(s, Len(s), Len(s))
         IN  10 * IntOf(SubSeq(s, 1, Len(s) - 1))
             + (CHOOSE d \in 0..9 : SubSeq(Digits, d + 1, d + 1) = last)

\* The position of the last digit of the run of digits that starts at i
RECURSIVE RunEnd(_, _)
RunEnd(s, i) ==
    IF i < Len(s) /\ IsDigit(SubSeq(s, i + 1, i + 1)) THEN RunEnd(s, i + 1) ELSE i

\* (\d+):(\d+) matches at position i of s
TimeAt(s, i) ==
    /\ IsDigit(SubSeq(s, i, i))
    /\ LET e == RunEnd(s, i)
       IN  /\ e + 2 <= Len(s)
           /\ SubSeq(s, e + 1, e + 1) = ":"
           /\ IsDigit(SubSeq(s, e + 2, e + 2))

\* re.search(r'(\d+):(\d+)', s): the leftmost match, with its two groups and
\* the positions it spans, or None
SearchTime(s) ==
    LET hits == {i \in 1..Len(s) : TimeAt(s, i)}
    IN  IF hits = {} THEN None
        ELSE LET i == CHOOSE h \in hits : \A j \in hits : h <= j
                 e == RunEnd(s, i)
             IN  Some([start |-> i, end |-> RunEnd(s, e + 2),
                       group1 |-> SubSeq(s, i, e),
                       group2 |-> SubSeq(s, e + 2, RunEnd(s, e + 2))])

\* re.sub(r'(\d+):(\d+)', '', s): every match removed, left to right
RECURSIVE SubTime(_)
SubTime(s) ==
    LET m == SearchTime(s)
    IN  IF m.none THEN s
        ELSE SubSeq(s, 1, m.val.start - 1) \o SubTime(SubSeq(s, m.val.end + 1, Len(s)))

\* re.sub(r'\.+$', '', s)
RECURSIVE SubTrailingDots(_)
SubTrailingDots(s) ==
    IF Len(s) > 0 /\ SubSeq(s, Len(s), Len(s)) = "."
    THEN SubTrailingDots(SubSeq(s, 1, Len(s) - 1))
    ELSE s

\* Lines 35-36: the category text of a line that holds a time
CategoryText(line) == Strip(SubTrailingDots(Strip(SubTime(line))))

\* for line in lines, from line i on: the list `data`
RECURSIVE ScrapeLoop(_, _, _)
ScrapeLoop(data, lines, i) ==
    IF i > Len(lines) THEN data
    ELSE LET line  == Strip(lines[i])
             match == SearchTime(line)
         IN  IF line = "" \/ match.none \/ CategoryText(line) = ""
             THEN ScrapeLoop(data, lines, i + 1)
             ELSE LET hours   == IntOf(match.val.group1)
                      minutes == IntOf(match.val.group2)
                  IN  ScrapeLoop(
                          Append(data, [category      |-> CategoryText(line),
                                        hours         |-> hours,
                                        minutes       |-> minutes,
                                        total_minutes |-> hours * 60 + minutes]),
                          lines, i + 1)

\* df[df['total_minutes'] > 0]
PositiveRows(df) == SelectSeq(df, LAMBDA row : row.total_minutes > 0)

\* A drop_duplicates that drops nothing
KeepDuplicates(out, df, i) == df

\* df.drop_duplicates(subset=['category']): the first row of each category
\* is kept, from row i on
RECURSIVE DropDuplicates(_, _, _)
DropDuplicates(out, df, i) ==
    IF i > Len(df) THEN out
    ELSE IF \E j \in 1..Len(out) : out[j].category = df[i].category
    THEN DropDuplicates(out, df, i + 1)
    ELSE DropDuplicates(Append(out, df[i]), df, i + 1)

\* Lines 49-50 in the other order: duplicates dropped before the rows without
\* minutes
CleanDuplicatesFirst(df) == PositiveRows(DropDuplicates(<<>>, df, 1))

\* Lines 49-50
Clean(df) == DropDuplicates(<<>>, PositiveRows(df), 1)

\* df.sort_values('total_minutes', ascending=False): the default sort is not
\* stable, so rows of equal total_minutes come out in any order
SortValues(df) ==
    LET n == Len(df)
        orders == {p \in [1..n -> 1..n] :
                     /\ \A i, j \in 1..n : p[i] = p[j] => i = j
                     /\ \A i \in 1..(n - 1) :
                           df[p[i]].total_minutes >= df[p[i + 1]].total_minutes}
    IN  {[i \in 1..n |-> df[p[i]]] : p \in orders}

\* extract_time_use_data(pdf_path), given the lines of the document's text:
\* the tables it can return
extract_time_use_data(lines) == SortValues(Clean(ScrapeLoop(<<>>, lines, 1)))

---------------------------------------------------------------------------
(* parse_atus_tables.py *)

\* The lines of a table page, as text.split('\n') gives them
ParseLines ==
    {"Watching television", "Watching TV 1:30", "Playing games", "2.5 hrs",
     "2.5 hours", "1 hour 30 minutes", "45 min", "0:00"}

Uppers == "ABCDEFGHIJKLMNOPQRSTUVWXYZ"

Lowers == "abcdefghijklmnopqrstuvwxyz"

\* str.lower()
RECURSIVE Lower(_)
Lower(s) ==
    IF Len(s) = 0 THEN s
    ELSE LET c == SubSeq(s, 1, 1)
             up == {k \in 1..26 : SubSeq(Uppers, k, k) = c}
         IN  (IF up = {} THEN c ELSE LET k == CHOOSE x \in up : TRUE IN SubSeq(Lowers, k, k))
             \o Lower(SubSeq(s, 2, Len(s)))

\* '\n'.join(lines)
RECURSIVE Join(_)
Join(lines) ==
    IF Len(lines) = 0 THEN ""
    ELSE IF Len(lines) = 1 THEN lines[1]
    ELSE lines[1] \o "\n" \o Join(Tail(lines))

\* The concatenation of a sequence of lists
RECURSIVE Concat(_)
Concat(lists) ==
    IF Len(lists) = 0 THEN <<>> ELSE lists[1] \o Concat(Tail(lists))

\* activity_mappings, in the order the dict and its lists are written
activity_mappings ==
    <<[activity_type |-> "gaming",
       patterns |-> <<"playing games", "computer use for leisure",
                      "games and computer use", "playing games and computer use">>],
      [activity_type |-> "tv",
       patterns |-> <<"watching television", "watching tv", "television">>],
      [activity_type |-> "social_media",
       patterns |-> <<"social media", "social networking", "computer use.*social">>],
      [activity_type |-> "leisure_total",
       patterns |-> <<"leisure and sports", "total leisure", "leisure activities">>],
      [activity_type |-> "socializing",
       patterns |-> <<"socializing and communicating", "socializing, relaxing">>]>>

\* s holds the text lit at position i
StartsAt(s, i, lit) ==
    i >= 1 /\ i + Len(lit) - 1 <= Len(s) /\ SubSeq(s, i, i + Len(lit) - 1) = lit

\* The character at position i of s, "" past its end
CharAt(s, i) == IF i >= 1 /\ i <= Len(s) THEN SubSeq(s, i, i) ELSE ""

\* Line 92: pattern in line_lower or re.search(pattern, line_lower). All the
\* patterns but 'computer use.*social' are plain text to re.search as well.
ActivityMatch(pattern, line_lower) ==
    \/ Contains(line_lower, pattern)
    \/ /\ pattern = "computer use.*social"
       /\ \E i \in 1..Len(line_lower) :
             /\ StartsAt(line_lower, i, "computer use")
             /\ Contains(SubSeq(line_lower, i + 12, Len(line_lower)), "social")

\* \s*: the first position from i on that holds no blank
RECURSIVE SkipSpaces(_, _)
SkipSpaces(s, i) ==
    IF i <= Len(s) /\ SubSeq(s, i, i) = " " THEN SkipSpaces(s, i + 1) ELSE i

\* (?:hours?|hrs?) or (?:minutes?|mins?) at position i: the position after the
\* match, or 0 when there is none
UnitEnd(s, i, long, short) ==
    LET after(k) == IF StartsAt(s, k, "s") THEN k + 1 ELSE k
    IN  IF StartsAt(s, i, long) THEN after(i + Len(long))
        ELSE IF StartsAt(s, i, short) THEN after(i + Len(short))
        ELSE 0

\* (\d+\.\d+)\s*(?:hours?|hrs?) at position i: the group, or None
DecimalHoursAt(s, i) ==
    IF ~IsDigit(CharAt(s, i)) THEN None
    ELSE LET e == RunEnd(s, i)
         IN  IF ~(CharAt(s, e + 1) = "." /\ IsDigit(CharAt(s, e + 2)))
             THEN None
             ELSE LET f == RunEnd(s, e + 2)
                  IN  IF UnitEnd(s, SkipSpaces(s, f + 1), "hour", "hr") = 0 THEN None
                      ELSE Some(<<SubSeq(s, i, f)>>)

\* (\d+):(\d+), as re.findall returns its first match
ClockAt(s) ==
    LET m == SearchTime(s)
    IN  IF m.none THEN None ELSE Some(<<m.val.group1, m.val.group2>>)

\* (\d+)\s*(?:hours?|hrs?)\s*(?:and\s*)?(\d+)\s*(?:minutes?|mins?) at i
HoursAndMinutesAt(s, i) ==
    IF ~IsDigit(CharAt(s, i)) THEN None
    ELSE LET e == RunEnd(s, i)
             u == UnitEnd(s, SkipSpaces(s, e + 1), "hour", "hr")
         IN  IF u = 0 THEN None
             ELSE LET k == SkipSpaces(s, u)
                      d == IF StartsAt(s, k, "and") THEN SkipSpaces(s, k + 3) ELSE k
                  IN  IF ~IsDigit(CharAt(s, d)) THEN None
                      ELSE LET f == RunEnd(s, d)
                           IN  IF UnitEnd(s, SkipSpaces(s, f + 1), "minute", "min") = 0
                               THEN None
                               ELSE Some(<<SubSeq(s, i, e), SubSeq(s, d, f)>>)

\* (\d+)\s*(?:minutes?|mins?) at position i
MinutesAt(s, i) ==
    IF ~IsDigit(CharAt(s, i)) THEN None
    ELSE LET e == RunEnd(s, i)
         IN  IF UnitEnd(s, SkipSpaces(s, e + 1), "minute", "min") = 0 THEN None
             ELSE Some(<<SubSeq(s, i, e)>>)

\* The time pattern of that number (1 to 4, as in time_patterns) at position i
PatternAt(time_pattern, s, i) ==
    CASE time_pattern = 1 -> DecimalHoursAt(s, i)
      [] time_pattern = 3 -> HoursAndMinutesAt(s, i)
      [] time_pattern = 4 -> MinutesAt(s, i)

\* re.findall(time_pattern, check_line)[0]: the groups of the leftmost match,
\* or None when the list is empty
FirstMatch(time_pattern, check_line) ==
    IF time_pattern = 2 THEN ClockAt(check_line)
    ELSE LET hits == {i \in 1..Len(check_line) : ~PatternAt(time_pattern, check_line, i).none}
         IN  IF hits = {} THEN None
             ELSE PatternAt(time_pattern, check_line,
                            CHOOSE i \in hits : \A j \in hits : i <= j)

RECURSIVE Pow10(_)
Pow10(n) == IF n = 0 THEN 1 ELSE 10 * Pow10(n - 1)

\* float(text) of digits with or without a decimal point, as a fraction
FloatOf(text) ==
    LET dots == {i \in 1..Len(text) : SubSeq(text, i, i) = "."}
    IN  IF dots = {} THEN [num |-> IntOf(text), den |-> 1]
        ELSE LET d == CHOOSE i \in dots : TRUE
                 frac == SubSeq(text, d + 1, Len(text))
             IN  [num |-> IntOf(SubSeq(text, 1, d - 1)) * Pow10(Len(frac)) + IntOf(frac),
                  den |-> Pow10(Len(frac))]

\* Lines 103-119: the minutes of a match. A match of two groups is hours and
\* minutes; a single value counts as hours when the line holds 'hour', and
\* as minutes otherwise.
TimeInMinutes(groups, check_line) ==
    IF Len(groups) = 2 THEN IntOf(groups[1]) * 60 + IntOf(groups[2])
    ELSE LET value == FloatOf(groups[1])
         IN  IF Contains(Lower(check_line), "hour")
             THEN (value.num * 60) \div value.den
             ELSE value.num \div value.den

\* A test that keeps every matched time
KeepAll(minutes) == TRUE

\* Line 121: if minutes > 0
KeepPositive(minutes) == minutes > 0

\* Lines 99-131: the time patterns are tried in order on check_line until one
\* gives a record; a pattern without match, or whose minutes are not
\* positive, passes on to the next
RECURSIVE TimePatternLoop(_, _, _, _, _, _)
TimePatternLoop(table, lines, i, activity_type, j, time_pattern) ==
    IF time_pattern > 4 THEN <<>>
    ELSE LET matches == FirstMatch(time_pattern, lines[j])
             minutes == IF matches.none THEN 0 ELSE TimeInMinutes(matches.val, lines[j])
         IN  IF matches.none \/ ~KeepPositive(minutes)
             THEN TimePatternLoop(table, lines, i, activity_type, j, time_pattern + 1)
             ELSE <<[table |-> table.name,
                    page |-> table.page,
                    activity_type |-> activity_type,
                    activity_description |-> Strip(lines[i]),
                    time_minutes |-> minutes,
                    time_string |-> Strip(lines[j]),
                    context |-> Join(SubSeq(lines, IF i > 1 THEN i - 1 ELSE 1,
                                            IF Len(lines) < i + 2 THEN Len(lines) ELSE i + 2))]>>

\* Line 95: for j in range(i, min(i + 3, len(lines)))
CheckLines(lines, i) == i..(IF Len(lines) < i + 2 THEN Len(lines) ELSE i + 2)

\* Lines 93-131 for one matching pattern of one activity type on line i
TimeRecords(table, lines, i, activity_type) ==
    Concat([k \in 1..Cardinality(CheckLines(lines, i)) |->
                TimePatternLoop(table, lines, i, activity_type, i + k - 1, 1)])

\* Lines 90-131 for line i: every pattern of every activity type that the
\* line matches looks for times on its own
ActivityRecords(table, lines, i) ==
    LET line_lower == Lower(lines[i])
    IN  Concat([a \in 1..Len(activity_mappings) |->
            LET found == TimeRecords(table, lines, i, activity_mappings[a].activity_type)
            IN  Concat([p \in 1..Len(activity_mappings[a].patterns) |->
                    IF ActivityMatch(activity_mappings[a].patterns[p], line_lower)
                    THEN found
                    ELSE <<>>])])

\* parse_time_use_data(extracted_tables): extracted_tables is the dict in
\* insertion order, each table with its name, page and lines
parse_time_use_data(extracted_tables) ==
    Concat([t \in 1..Len(extracted_tables) |->
        Concat([i \in 1..Len(extracted_tables[t].lines) |->
            ActivityRecords(extracted_tables[t], extracted_tables[t].lines, i)])])

---------------------------------------------------------------------------
(* scrape_atus_detailed.py *)

\* The tables table.extract() can give: lists of rows, the first the header
DemographicHeader == <<"Activity", "Average hours">>

DemographicTables ==
    {<<>>,
     <<DemographicHeader>>,
     <<DemographicHeader, <<"Playing games", "0:30">>, <<"Sleeping", "8:30">>>>,
     <<DemographicHeader, <<"Watching TV", "0:00">>, <<"Relaxing", "1:05">>>>,
     <<DemographicHeader, <<"Watching TV", "2:30", "1:15">>>>,
     <<<<>>, <<"Playing games", "0:30">>>>,
     <<<<"Item", "Time", "Minutes">>, <<"Social media", "0:45", "45">>>>}

\* extract_time_values(text): the minutes of the first H:MM of str(text), or None
extract_time_values(text) ==
    LET m == SearchTime(text)
    IN  IF m.none THEN None
        ELSE Some(IntOf(m.val.group1) * 60 + IntOf(m.val.group2))

\* any(keyword in text for keyword in keywords)
AnyKeyword(keywords, text) == \E keyword \in keywords : Contains(text, keyword)

\* Lines 175-184: the activity type of a row, "" for the rows passed over
ActivityTypeOf(activity) ==
    IF AnyKeyword({"game", "gaming", "playing games"}, activity) THEN "gaming"
    ELSE IF AnyKeyword({"tv", "television"}, activity) THEN "tv"
    ELSE IF AnyKeyword({"social media", "social networking"}, activity) THEN "social_media"
    ELSE IF AnyKeyword({"leisure", "relaxing"}, activity) THEN "leisure_total"
    ELSE ""

\* The widest row below the header
RECURSIVE MaxRowLen(_, _)
MaxRowLen(table_data, r) ==
    IF r > Len(table_data) THEN 0
    ELSE LET rest == MaxRowLen(table_data, r + 1)
         IN  IF Len(table_data[r]) > rest THEN Len(table_data[r]) ELSE rest

\* Line 159: pd.DataFrame(rows, columns=header) raises ValueError when there
\* are rows and their width is not the number of column names; a falsy header
\* makes columns=None, which fits any rows
FrameRaises(table_data) ==
    /\ table_data[1] # <<>>
    /\ Len(table_data) > 1
    /\ MaxRowLen(table_data, 2) # Len(table_data[1])

\* row[col]: a row shorter than the frame is filled up with None
CellOf(row, c) == IF c <= Len(row) THEN row[c] ELSE "None"

\* row.to_dict()
RowDict(header, row) ==
    [name \in {header[c] : c \in 1..Len(header)} |->
        CellOf(row, CHOOSE c \in 1..Len(header) : header[c] = name)]

\* Line 187: if time_value
TimeFound(time_value) == ~time_value.none /\ time_value.val # 0

\* Lines 171-195: the records of the rows of a frame for one activity column
\* and one time column
RowRecords(table_info, header, activity_col, time_col) ==
    Concat([k \in 1..(Len(table_info.data) - 1) |->
        LET row == table_info.data[k + 1]
            activity_type == ActivityTypeOf(Lower(CellOf(row, activity_col)))
            time_value == extract_time_values(CellOf(row, time_col))
        IN  IF activity_type # "" /\ TimeFound(time_value)
            THEN <<[page |-> table_info.page,
                    activity_type |-> activity_type,
                    activity_description |-> CellOf(row, activity_col),
                    time_minutes |-> time_value.val,
                    demographic |-> "overall",
                    raw_data |-> RowDict(header, row)]>>
            ELSE <<>>])

\* Lines 162-195: every column whose name tells of an activity, with every
\* column whose name tells of a time. With columns=None the names are the
\* integers from 0 on, which hold no keyword.
TableRecords(table_info) ==
    LET header == table_info.data[1]
    IN  Concat([col \in 1..Len(header) |->
            IF header[col] # ""
               /\ AnyKeyword({"activity", "category", "item"}, Lower(header[col]))
            THEN Concat([time_col \in 1..Len(header) |->
                    IF header[time_col] # ""
                       /\ AnyKeyword({"time", "hours", "minutes", "average"},
                                     Lower(header[time_col]))
                    THEN RowRecords(table_info, header, col, time_col)
                    ELSE <<>>])
            ELSE <<>>])

\* A processing of one table for which an error loses the records so far
ProcessTableLosing(acc, table_info) ==
    IF table_info.data = <<>> THEN acc
    ELSE IF FrameRaises(table_info.data)
    THEN [processed_data |-> <<>>, printed |-> Append(acc.printed, table_info.page)]
    ELSE [processed_data |-> acc.processed_data \o TableRecords(table_info),
          printed |-> acc.printed]

\* Lines 151-198 for one table: an empty table is passed over; an exception
\* is caught and the page printed; the only statement of the try block that
\* can raise for tables made of lists of strings is the frame's construction
ProcessTable(acc, table_info) ==
    IF table_info.data = <<>> THEN acc
    ELSE IF FrameRaises(table_info.data)
    THEN [processed_data |-> acc.processed_data,
          printed |-> Append(acc.printed, table_info.page)]
    ELSE [processed_data |-> acc.processed_data \o TableRecords(table_info),
          printed |-> acc.printed]

\* for table_info in results['demographic_tables'], from table i on
RECURSIVE ProcessLoop(_, _, _)
ProcessLoop(acc, tables, i) ==
    IF i > Len(tables) THEN acc
    ELSE ProcessLoop(ProcessTable(acc, tables[i]), tables, i + 1)

\* process_demographic_tables(results): the list it returns and the pages of
\* the errors it prints
process_demographic_tables(res) ==
    ProcessLoop([processed_data |-> <<>>, printed |-> <<>>],
                res["demographic_tables"], 1)

---------------------------------------------------------------------------
(* State shared by the specifications *)

NoRet == [raised |-> "<pending>"]

\* The state before anything ran, but for script, pc and arg
Fresh ==
    /\ http = NoHttp
    /\ ret = NoRet
    /\ requests = <<>>
    /\ answers = <<>>
    /\ steps = <<>>
    /\ files = {}
    /\ results = EmptyDict
    /\ doc = "unopened"

---------------------------------------------------------------------------
(* SpecCalls: one call of one function *)

\* The hours an entry of results can hold: zero, a positive number, or the
\* NaN of an observation without data
ChartHours == {Some(0), Some(250), NaN}

\* The dicts results[type][age] can be, over the activities acts: at least
\* one activity, each with an entry of the series that d assigns to it
AgeDatas(d, age, acts) ==
    UNION {{[a \in S |-> Entry(f[a], d[age][a])] : f \in [S -> ChartHours]} :
            S \in (SUBSET acts) \ {{}}}

\* The dicts results[type] can be, for two age groups
TypeResults(d) ==
    LET young == AgeDatas(d, "15-24", {"playing_games", "computer_excl_games"})
        older == AgeDatas(d, "25-34", {"watching_tv"})
    IN  {EmptyDict}
        \cup {("15-24" :> x) : x \in young}
        \cup {("25-34" :> y) : y \in older}
        \cup {("15-24" :> x) @@ ("25-34" :> y) : x \in young, y \in older}

\* The results fetch_comparison_data can hand to the charts
ComparisonResults ==
    {[A01 |-> x, A02 |-> y] : x \in TypeResults(a01_series), y \in TypeResults(a02_series)}

CallArgs(fn) ==
    IF fn \in {"parse_response_to_dataframe", "parse_atus_response"}
    THEN {None} \cup {Some(b) : b \in ClientBodies}
    ELSE IF fn = "create_multiplier_chart" THEN ComparisonResults
    ELSE IF fn = "main_summary"
    THEN {res \in ComparisonResults : ComparisonShouldPresent(res)}
    ELSE SeqsUpTo(ClientIds, MaxIds)

CallFunctions ==
    {"get_series_data", "get_latest_series", "fetch_atus_data",
     "parse_response_to_dataframe", "parse_atus_response",
     "create_multiplier_chart", "main_summary"}

InitCalls ==
    /\ script \in CallFunctions
    /\ arg \in CallArgs(script)
    /\ pc = "call"
    /\ Fresh

\* The call issues its requests and comes back
Fetched(r, outcome) ==
    /\ http' = outcome
    /\ requests' = requests \o r.sent
    /\ ret' = r.ret
    /\ pc' = "done"
    /\ UNCHANGED <<script, arg, answers, steps, files, results, doc>>

CallGetSeriesData ==
    /\ script = "get_series_data" /\ pc = "call"
    /\ \E outcome \in ClientOutcomes : Fetched(get_series_data(arg, outcome), outcome)

CallGetLatestSeries ==
    /\ script = "get_latest_series" /\ pc = "call"
    /\ \E outcome \in ClientOutcomes : Fetched(get_latest_series(arg, outcome), outcome)

CallFetchAtusData ==
    /\ script = "fetch_atus_data" /\ pc = "call"
    /\ \E outcome \in ClientOutcomes : Fetched(fetch_atus_data(arg, outcome), outcome)

CallParseResponseToDataframe ==
    /\ script = "parse_response_to_dataframe" /\ pc = "call"
    /\ ret' = parse_response_to_dataframe(arg)
    /\ pc' = "done"
    /\ UNCHANGED <<script, arg, http, requests, answers, steps, files, results, doc>>

CallParseAtusResponse ==
    /\ script = "parse_atus_response" /\ pc = "call"
    /\ ret' = parse_atus_response(arg)
    /\ pc' = "done"
    /\ UNCHANGED <<script, arg, http, requests, answers, steps, files, results, doc>>

CallCreateMultiplierChart ==
    /\ script = "create_multiplier_chart" /\ pc = "call"
    /\ LET chart == create_multiplier_chart(arg)
       IN  /\ ret' = Return(Some(chart.lists))
           /\ files' = IF chart.plotted
                       THEN files \cup {"visualizations/api_participation_multiplier.png"}
                       ELSE files
    /\ pc' = "done"
    /\ UNCHANGED <<script, arg, http, requests, answers, steps, results, doc>>

\* The summary loop of create_participant_comparison.main; ret is the list of
\* the lines it printed
CallSummary ==
    /\ script = "main_summary" /\ pc = "call"
    /\ ret' = Return(Some(SummaryLoop(<<>>, arg, 1)))
    /\ pc' = "done"
    /\ UNCHANGED <<script, arg, http, requests, answers, steps, files, results, doc>>

NextCalls ==
    \/ CallCreateMultiplierChart
    \/ CallSummary
    \/ CallGetSeriesData
    \/ CallGetLatestSeries
    \/ CallFetchAtusData
    \/ CallParseResponseToDataframe
    \/ CallParseAtusResponse

SpecCalls == InitCalls /\ [][NextCalls]_vars

---------------------------------------------------------------------------
(* Claims about single calls *)

Returned(fn) == script = fn /\ pc = "done"

\* C1: get_series_data and get_latest_series issue at most one HTTP request
\* per call; when the request raises a RequestException the call returns None
\* (no retry, nothing propagates), otherwise it returns the decoded body.
C1_OneRequestNoneOnError ==
    script \in {"get_series_data", "get_latest_series"} =>
        /\ Len(requests) <= 1
        /\ pc = "done" =>
            /\ Len(requests) = 1
            /\ http.kind \in RequestExceptions => ret = Return(None)
            /\ http.kind \notin RequestExceptions => ret = Return(Some(http.body))

C1_Witness ==
    /\ Returned("get_series_data")
    /\ http.kind = "HTTPError"
    /\ ret = Return(None)
    /\ Len(requests) = 1

\* Rows of the response that precede those of series k
RowsBefore(series_list, k) ==
    SumTo([m \in 1..Len(series_list) |-> Len(series_list[m]["data"])], k - 1)

\* A response the API documents: status REQUEST_SUCCEEDED and a Results.series
\* list whose items carry a number or '-'
WellFormed(json_data) ==
    /\ ~json_data.none
    /\ StatusIs(json_data.val, SUCCEEDED)
    /\ "Results" \in DOMAIN json_data.val

C3_InvalidReturnsNone ==
    (/\ Returned("parse_response_to_dataframe")
     /\ (arg.none \/ ~Truthy(arg.val) \/ ~StatusIs(arg.val, SUCCEEDED)))
        => ret = Return(None)

\* C8: get_latest_series issues exactly one request: a GET to the per-series
\* URL with latest=true for one series ID, a POST to timeseries/data/ whose
\* payload carries all the IDs and latest=True for several.
C8_LatestDispatch ==
    Returned("get_latest_series") =>
        /\ Len(requests) = 1
        /\ Len(arg) = 1 => requests[1] = GetLatest(arg[1])
        /\ Len(arg) > 1 =>
            /\ requests[1].method = "POST"
            /\ requests[1].endpoint = "timeseries/data/"
            /\ requests[1].seriesid = arg
            /\ requests[1].latest

C8_Witness ==
    /\ Returned("get_latest_series")
    /\ Len(arg) = 1
    /\ requests = <<GetLatest(arg[1])>>

\* C10: fetch_atus_data returns the decoded body only when its status is
\* REQUEST_SUCCEEDED; after a request exception, an HTTP error status or a
\* body with another status it returns None; it never returns a body whose
\* status is not REQUEST_SUCCEEDED.
C10_FetchReturnsOnlySucceeded ==
    Returned("fetch_atus_data") =>
        /\ (ret.raised = "" /\ ~ret.value.none) =>
              /\ http.kind = "ok"
              /\ ret.value.val = http.body
              /\ StatusIs(ret.value.val, SUCCEEDED)
        /\ (http.kind = "ok" /\ StatusIs(http.body, SUCCEEDED)) =>
              ret = Return(Some(http.body))
        /\ (\/ http.kind \in RequestExceptions
            \/ /\ http.kind = "ok"
               /\ "status" \in DOMAIN http.body
               /\ http.body["status"] # SUCCEEDED) =>
              ret = Return(None)

C10_Witness ==
    /\ Returned("fetch_atus_data")
    /\ http.kind = "ok"
    /\ StatusIs(http.body, NOT_PROCESSED)
    /\ "Results" \in DOMAIN http.body
    /\ ret = Return(None)

\* C11: parse_response_to_dataframe builds one row dict per data item, none
\* dropped; the row's value is None if and only if the item's value string is
\* '-', and is the number the string denotes otherwise. The returned table
\* keeps every row, the numbers as they are and the missing values missing.
C11_ValueMapping ==
    (Returned("parse_response_to_dataframe") /\ WellFormed(arg)) =>
        LET series_list == arg.val["Results"]["series"]
            all_data    == ClientSeriesLoop(<<>>, series_list, 1)
            total       == RowsBefore(series_list, Len(series_list) + 1)
        IN  /\ ret.raised = "" /\ ~ret.value.none
            /\ Len(all_data) = total
            /\ Len(ret.value.val) = total
            /\ \A k \in 1..Len(series_list) :
                 \A j \in 1..Len(series_list[k]["data"]) :
                    LET n    == RowsBefore(series_list, k) + j
                        item == series_list[k]["data"][j]
                    IN  /\ (all_data[n].value = None) <=> (item["value"] = "-")
                        /\ item["value"] # "-" =>
                              /\ all_data[n].value = Some(float(item["value"]))
                              /\ ret.value.val[n].value = Some(float(item["value"]))
                        /\ item["value"] = "-" => ret.value.val[n].value \in {None, NaN}

C11_Witness ==
    /\ Returned("parse_response_to_dataframe") /\ WellFormed(arg)
    /\ Len(arg.val["Results"]["series"]) = 2
    /\ arg.val["Results"]["series"][1]["data"] # <<>>
    /\ arg.val["Results"]["series"][1]["data"][1]["value"] = "-"
    /\ ret.raised = "" /\ ~ret.value.none
    /\ Len(ret.value.val) = 2
    /\ ret.value.val[2].value = Some(250)

\* The fields of a row that both flatteners fill
SharedFields(row) ==
    [series_id    |-> row.series_id,
     series_title |-> row.series_title,
     year         |-> row.year,
     period       |-> row.period,
     value        |-> row.value,
     latest       |-> row.latest]

\* C12 as claimed: for every response with status REQUEST_SUCCEEDED and a
\* Results.series list, parse_atus_response and parse_response_to_dataframe
\* return the same number of rows, in the same order, with equal series_id,
\* series_title, year, period, value and latest in each row.
C12_FlattenersAgree ==
    (Returned("parse_atus_response") /\ WellFormed(arg)) =>
        LET client == parse_response_to_dataframe(arg)
        IN  /\ ret.raised = "" /\ ~ret.value.none
            /\ client.raised = "" /\ ~client.value.none
            /\ Len(ret.value.val) = Len(client.value.val)
            /\ \A n \in 1..Len(ret.value.val) :
                    SharedFields(ret.value.val[n]) = SharedFields(client.value.val[n])

\* The multiplier of one activity of one charted age group is as claimed
GuardedQuotient(q, dividend, divisor) ==
    /\ q # ZeroDivision
    /\ Positive(divisor) => (~IsNaN(divisor) /\ divisor.val > 0 /\ q = Divide(dividend, divisor))
    /\ ~Positive(divisor) => q = Some(0)

\* C15: create_multiplier_chart and the summary loop of main never divide by
\* zero: the multiplier A02/A01 is computed only when the A01 minutes are > 0
\* and is 0 otherwise, the participation rate A01/A02 only when the A02
\* minutes are > 0 and is 0 otherwise; an age group is charted only if it is
\* in both A01 and A02 and one of its A01 values is > 0, and nothing is
\* plotted when no age group qualifies.
C15_NoDivisionByZero ==
    /\ Returned("create_multiplier_chart") =>
          LET out == ret.value.val
          IN  /\ out.age_groups = MultiplierAgeGroups(arg)
              /\ Len(out.tv_mult) = Len(out.age_groups)
              /\ Len(out.gaming_mult) = Len(out.age_groups)
              /\ Len(out.computer_mult) = Len(out.age_groups)
              /\ \A i \in 1..Len(out.age_groups) :
                    LET a01 == arg["A01"][out.age_groups[i]]
                        a02 == arg["A02"][out.age_groups[i]]
                    IN  /\ GuardedQuotient(out.tv_mult[i], MinutesOf(a02, "watching_tv"),
                                           MinutesOf(a01, "watching_tv"))
                        /\ GuardedQuotient(out.gaming_mult[i], MinutesOf(a02, "playing_games"),
                                           MinutesOf(a01, "playing_games"))
                        /\ GuardedQuotient(out.computer_mult[i],
                                           MinutesOf(a02, "computer_excl_games"),
                                           MinutesOf(a01, "computer_excl_games"))
              /\ (files # {}) <=> (out.age_groups # <<>>)
    /\ Returned("main_summary") =>
          \A i \in 1..Len(ret.value.val) :
              LET line == ret.value.val[i]
                  a01_val == MinutesOf(arg["A01"][line.age], line.activity)
                  a02_val == MinutesOf(arg["A02"][line.age], line.activity)
              IN  /\ Positive(a01_val)
                  /\ line.mult # ZeroDivision
                  /\ line.participation # ZeroDivision
                  /\ ~Positive(a02_val) => line.participation = Some(0)

C15_Witness ==
    /\ Returned("create_multiplier_chart")
    /\ ret.value.val.age_groups = <<"15-24">>
    /\ ret.value.val.gaming_mult = <<Some(0)>>
    /\ ret.value.val.computer_mult = <<Some(100)>>
    /\ "playing_games" \in DOMAIN arg["A01"]["15-24"]
    /\ arg["A01"]["15-24"]["playing_games"].minutes = Some(0)
    /\ "25-34" \in DOMAIN arg["A01"]
    /\ files # {}

---------------------------------------------------------------------------
(* SpecScripts: one run of one script that talks to the API *)

Scripts ==
    {"fetch_atus_api", "create_api_visualizations_final",
     "create_participant_comparison", "check_a02_availability",
     "create_final_age_visualizations"}

StartPc ==
    [fetch_atus_api |-> "test_fetch", create_api_visualizations_final |-> "batch",
     create_participant_comparison |-> "fetch", check_a02_availability |-> "check",
     create_final_age_visualizations |-> "fetch"]

\* What the API can answer to each script
FetchApiOutcomes == OutcomesOver({"TUU10101AA01000000", "TUU10301AA01000000"})

\* to the batch request: series of two of the age groups asked for
ApiVisOutcomes == OutcomesOver({"TUU10101AA01005910", "TUU3201AA0101120308"})

\* to the fallback request: the one series asked for
ApiVisFallbackOutcomes == OutcomesOver({"TUU10101AA01021432"})

ComparisonOutcomes == OutcomesOver({"TUU10101AA01021432", "TUU10101AA02021432"})

CheckA02Outcomes == OutcomesOver({"TUU10101AA02021432"})

FinalAgeOutcomes == OutcomesOver({"TUU10101AA01005910", "TUU10101AA01021432"})

InitScripts ==
    /\ script \in Scripts
    /\ pc = StartPc[script]
    /\ arg = <<>>
    /\ Fresh

\* One request went out and was answered
Requested(sent, outcome) ==
    /\ requests' = requests \o sent
    /\ answers' = Append(answers, Answer(outcome))

(* fetch_atus_api.py, lines 117-141 *)

\* test_data = fetch_atus_data(test_series, ...); if test_data:
\* (test_data is not read after the test, so it is not kept)
FetchApiTest ==
    /\ script = "fetch_atus_api" /\ pc = "test_fetch"
    /\ \E outcome \in FetchApiOutcomes :
        LET r == fetch_atus_data(test_series, outcome)
        IN  /\ Requested(r.sent, outcome)
            /\ steps' = Append(steps, "test-fetch")
            /\ ret' = IF r.ret.raised # "" THEN r.ret ELSE NoRet
            /\ pc' = IF r.ret.raised # "" THEN "crashed"
                     ELSE IF TruthyOpt(r.ret.value) THEN "atus_fetch" ELSE "done"
    /\ UNCHANGED <<script, arg, http, files, results, doc>>

\* atus_data = fetch_atus_data(atus_series_ids, ...); if atus_data:
FetchApiAtus ==
    /\ script = "fetch_atus_api" /\ pc = "atus_fetch"
    /\ \E outcome \in FetchApiOutcomes :
        LET r == fetch_atus_data(atus_series_ids, outcome)
        IN  /\ Requested(r.sent, outcome)
            /\ steps' = Append(steps, "ATUS-fetch")
            /\ ret' = r.ret
            /\ pc' = IF r.ret.raised # "" THEN "crashed"
                     ELSE IF TruthyOpt(r.ret.value) THEN "parse" ELSE "done"
    /\ UNCHANGED <<script, arg, http, files, results, doc>>

\* df = parse_atus_response(atus_data); if df is not None and not df.empty:
FetchApiParse ==
    /\ script = "fetch_atus_api" /\ pc = "parse"
    /\ LET p == parse_atus_response(ret.value)
       IN  /\ ret' = p
           /\ pc' = IF p.raised # "" THEN "crashed"
                    ELSE IF ~p.value.none /\ Len(p.value.val) > 0 THEN "write" ELSE "done"
    /\ steps' = Append(steps, "parse")
    /\ UNCHANGED <<script, arg, http, requests, answers, files, results, doc>>

\* df.to_csv('data/atus_api_data.csv', index=False)
FetchApiWrite ==
    /\ script = "fetch_atus_api" /\ pc = "write"
    /\ files' = files \cup {"data/atus_api_data.csv"}
    /\ steps' = Append(steps, "write")
    /\ pc' = "done"
    /\ UNCHANGED <<script, arg, http, ret, requests, answers, results, doc>>

(* create_api_visualizations_final.py: main *)

\* A fetch step came back with results (or raised)
FetchStep(f, next) ==
    /\ results' = IF f.raised = "" THEN f.results ELSE results
    /\ ret' = IF f.raised = "" THEN ret ELSE Raise(f.raised)
    /\ pc' = IF f.raised = "" THEN next ELSE "crashed"

ApiVisBatch ==
    /\ script = "create_api_visualizations_final" /\ pc = "batch"
    /\ \E outcome \in ApiVisOutcomes :
        LET f == fetch_batch(outcome)
        IN  /\ Requested(f.sent, outcome)
            /\ FetchStep(f, IF NeedsFallback(f.results) THEN "fallback"
                            ELSE IF ApiVisShouldPresent(f.results) THEN "present"
                            ELSE "done")
    /\ steps' = Append(steps, "fetch_data_with_fallback")
    /\ UNCHANGED <<script, arg, http, files, doc>>

ApiVisFallback ==
    /\ script = "create_api_visualizations_final" /\ pc = "fallback"
    /\ \E outcome \in ApiVisFallbackOutcomes :
        LET f == fetch_fallback(results, outcome)
        IN  /\ Requested(f.sent, outcome)
            /\ FetchStep(f, IF ApiVisShouldPresent(f.results) THEN "present" ELSE "done")
    /\ UNCHANGED <<script, arg, http, steps, files, doc>>

\* The next call of main's if-branch
ApiVisPresent ==
    /\ script = "create_api_visualizations_final" /\ pc = "present"
    /\ LET fn == ApiVisPresentation[Len(steps)]
       IN  /\ steps' = Append(steps, fn)
           /\ files' = files \cup ApiVisFiles(fn, results)
           /\ pc' = IF Len(steps) = Len(ApiVisPresentation) THEN "done" ELSE "present"
    /\ UNCHANGED <<script, arg, http, ret, requests, answers, results, doc>>

(* create_participant_comparison.py: main *)

ComparisonFetch ==
    /\ script = "create_participant_comparison" /\ pc = "fetch"
    /\ \E outcome \in ComparisonOutcomes :
        LET f == fetch_comparison_data(outcome)
        IN  /\ Requested(f.sent, outcome)
            /\ http' = outcome
            /\ FetchStep(f, IF ComparisonShouldPresent(f.results) THEN "present" ELSE "done")
    /\ steps' = Append(steps, "fetch_comparison_data")
    /\ UNCHANGED <<script, arg, files, doc>>

ComparisonPresent ==
    /\ script = "create_participant_comparison" /\ pc = "present"
    /\ LET fn == ComparisonPresentation[Len(steps)]
       IN  /\ steps' = Append(steps, fn)
           /\ files' = files \cup ComparisonFiles(fn, results)
           /\ pc' = IF Len(steps) = Len(ComparisonPresentation) THEN "done" ELSE "present"
    /\ UNCHANGED <<script, arg, http, ret, requests, answers, results, doc>>

(* create_final_age_visualizations.py: main *)

FinalAgeFetch ==
    /\ script = "create_final_age_visualizations" /\ pc = "fetch"
    /\ \E outcome \in FinalAgeOutcomes :
        LET f == fetch_all_age_data(outcome)
        IN  /\ Requested(f.sent, outcome)
            /\ http' = outcome
            /\ FetchStep(f, IF FinalAgeShouldPresent(f.results) THEN "present" ELSE "done")
    /\ steps' = Append(steps, "fetch_all_age_data")
    /\ UNCHANGED <<script, arg, files, doc>>

\* The next call of main's if-branch
FinalAgePresent ==
    /\ script = "create_final_age_visualizations" /\ pc = "present"
    /\ LET fn == FinalAgePresentation[Len(steps)]
       IN  /\ steps' = Append(steps, fn)
           /\ files' = files \cup FinalAgeFiles(fn, results)
           /\ pc' = IF Len(steps) = Len(FinalAgePresentation) THEN "done" ELSE "present"
    /\ UNCHANGED <<script, arg, http, ret, requests, answers, results, doc>>

(* check_a02_availability.py: check_a02_series *)

\* The next request of check_a02_series: one per test series, then simple_a02.
\* What it prints is not modelled; a usable response is parsed.
CheckA02 ==
    /\ script = "check_a02_availability" /\ pc = "check"
    /\ \E outcome \in CheckA02Outcomes :
        LET k == Len(answers) + 1
            f == FetchFrame(CheckA02Request(k), outcome)
        IN  /\ Requested(f.sent, outcome)
            /\ ret' = IF f.raised = "" THEN ret ELSE Raise(f.raised)
            /\ pc' = IF f.raised # "" THEN "crashed"
                     ELSE IF k > Len(a02_test_series) THEN "done" ELSE "check"
    /\ UNCHANGED <<script, arg, http, steps, files, results, doc>>

NextScripts ==
    \/ FetchApiTest
    \/ FetchApiAtus
    \/ FetchApiParse
    \/ FetchApiWrite
    \/ ApiVisBatch
    \/ ApiVisFallback
    \/ ApiVisPresent
    \/ ComparisonFetch
    \/ ComparisonPresent
    \/ FinalAgeFetch
    \/ FinalAgePresent
    \/ CheckA02

SpecScripts == InitScripts /\ [][NextScripts]_vars

\* C4: in create_api_visualizations_final.main and
\* create_participant_comparison.main, when every API request of the run
\* failed, no chart function is called and no output file is written.
C4_NoOutputWhenEveryFetchFailed ==
    (/\ script \in {"create_api_visualizations_final", "create_participant_comparison"}
     /\ \A i \in 1..Len(answers) : answers[i] = "failed")
        => /\ files = {}
           /\ \A i \in 1..Len(steps) :
                /\ \A k \in 1..Len(ApiVisPresentation) : steps[i] # ApiVisPresentation[k]
                /\ \A k \in 1..Len(ComparisonPresentation) : steps[i] # ComparisonPresentation[k]

C4_Witness ==
    /\ script = "create_api_visualizations_final"
    /\ pc = "done"
    /\ Len(requests) = 2
    /\ answers = <<"failed", "failed">>
    /\ files = {}
    /\ steps = <<"fetch_data_with_fallback">>

FetchApiOrder == <<"test-fetch", "ATUS-fetch", "parse", "write">>

\* C5: in a run of fetch_atus_api the steps taken are a prefix of test-fetch,
\* ATUS-fetch, parse, write; the ATUS request is issued only after the test
\* request was answered REQUEST_SUCCEEDED, parse_atus_response is called only
\* after the ATUS request was, and data/atus_api_data.csv is written only if
\* the parsed table is not None and not empty.
C5_FetchApiOrdering ==
    script = "fetch_atus_api" =>
        /\ Len(steps) <= Len(FetchApiOrder)
        /\ \A i \in 1..Len(steps) : steps[i] = FetchApiOrder[i]
        /\ Len(steps) >= 2 => (Len(answers) >= 1 /\ answers[1] = "succeeded")
        /\ Len(steps) >= 3 => (Len(answers) = 2 /\ answers[2] = "succeeded")
        /\ Len(requests) = Len(answers)
        /\ (files # {}) =>
            /\ files = {"data/atus_api_data.csv"}
            /\ steps = FetchApiOrder
            /\ ret.raised = "" /\ ~ret.value.none /\ Len(ret.value.val) > 0

C5_Witness ==
    /\ script = "fetch_atus_api"
    /\ pc = "done"
    /\ steps = FetchApiOrder
    /\ files = {"data/atus_api_data.csv"}
    /\ answers = <<"succeeded", "succeeded">>

\* C7 as claimed: in any run of create_api_visualizations_final,
\* check_a02_availability or fetch_atus_api at most one HTTP request is issued.
C7_SingleFetchPerRun ==
    script \in {"create_api_visualizations_final", "check_a02_availability",
                "fetch_atus_api"}
        => Len(requests) <= 1

\* C7, amended: the requests of a run are issued one at a time, each answered
\* before the next; a run of fetch_atus_api or of
\* create_api_visualizations_final issues at most two, and a run of
\* check_a02_availability that completes has issued seven.
C7_RequestsPerRun ==
    /\ Len(requests) = Len(answers)
    /\ script \in {"fetch_atus_api", "create_api_visualizations_final"}
          => Len(requests) <= 2
    /\ script = "check_a02_availability" =>
          /\ Len(requests) <= Len(a02_test_series) + 1
          /\ pc = "done" => Len(requests) = Len(a02_test_series) + 1

C7_Witness ==
    /\ script = "check_a02_availability"
    /\ pc = "done"
    /\ Len(requests) = 7
    /\ requests[7].seriesid = simple_a02

\* C14: a call of fetch_data_with_fallback issues at most two requests, the
\* batch request for all series first; the fallback request for the 15-24
\* computer series follows if and only if the batch produced results for at
\* most one age group (a failed batch request produces none), and it is the
\* last request of the call.
C14_FallbackIffFewAgeGroups ==
    /\ [](script = "create_api_visualizations_final" => Len(requests) <= 2)
    /\ [][script = "create_api_visualizations_final" =>
            /\ (pc = "batch" /\ pc' # "crashed") =>
                  /\ requests = <<>>
                  /\ Len(requests') = 1
                  /\ Len(requests'[1].seriesid) = Len(ApiVisAges) * Len(ApiVisActivities)
                  /\ (pc' = "fallback") <=> (Cardinality(DOMAIN results') <= 1)
            /\ (pc = "fallback") =>
                  /\ Len(requests') = 2
                  /\ requests'[2].seriesid = <<"TUU10101AA01021432">>
                  /\ pc' # "fallback"
            /\ (pc \notin {"batch", "fallback"}) => requests' = requests]_vars

C14_Witness ==
    /\ script = "create_api_visualizations_final"
    /\ pc = "done"
    /\ Len(requests) = 1
    /\ Cardinality(DOMAIN results) = 2
    /\ files # {}

\* The positions of s at which sub occurs
Occurrences(s, sub) ==
    {i \in 1..(Len(s) - Len(sub) + 1) : SubSeq(s, i, i + Len(sub) - 1) = sub}

\* The series IDs of a series dictionary
IdsOf(d) == {d[age][activity] : age \in DOMAIN d, activity \in {"watching_tv", "playing_games", "computer_excl_games"}}

\* C16: of the dictionaries get_a01_and_a02_series returns, a02_series has
\* the age groups and activities of a01_series; each A02 ID is the A01 ID with its one occurrence of 'AA01' replaced by 'AA02'; no
\* ID is repeated and no ID is of both, so that series_mapping sends each ID
\* to one (age, activity, type) and every entry of results is stored under
\* the type, age and activity of its series.
C16_SeriesPairing ==
    /\ (script = "create_participant_comparison" /\ pc = "fetch") =>
          /\ DOMAIN a02_series = DOMAIN a01_series
          /\ \A age \in DOMAIN a01_series :
                /\ DOMAIN a02_series[age] = DOMAIN a01_series[age]
                /\ \A activity \in DOMAIN a01_series[age] :
                      LET id1 == a01_series[age][activity]
                          id2 == a02_series[age][activity]
                          at  == Occurrences(id1, "AA01")
                      IN  /\ Cardinality(at) = 1
                          /\ \A i \in at :
                                id2 = SubSeq(id1, 1, i - 1) \o "AA02" \o SubSeq(id1, i + 4, Len(id1))
                          /\ ComparisonInfo(id1) =
                                [age |-> age, activity |-> activity, type |-> "A01"]
                          /\ ComparisonInfo(id2) =
                                [age |-> age, activity |-> activity, type |-> "A02"]
          /\ IdsOf(a01_series) \cap IdsOf(a02_series) = {}
          /\ Cardinality(IdsOf(a01_series)) = Len(age_order) * Len(ComparisonActivities)
          /\ Cardinality(IdsOf(a02_series)) = Len(age_order) * Len(ComparisonActivities)
    /\ (script = "create_participant_comparison" /\ pc \in {"present", "done"}) =>
          /\ \A age \in DOMAIN results["A01"] : \A activity \in DOMAIN results["A01"][age] :
                results["A01"][age][activity].series_id = a01_series[age][activity]
          /\ \A age \in DOMAIN results["A02"] : \A activity \in DOMAIN results["A02"][age] :
                results["A02"][age][activity].series_id = a02_series[age][activity]

C16_Witness ==
    /\ script = "create_participant_comparison" /\ pc = "done"
    /\ DOMAIN results["A01"] = {"15-24"} /\ DOMAIN results["A02"] = {"15-24"}
    /\ results["A01"]["15-24"]["computer_excl_games"].series_id = "TUU10101AA01021432"
    /\ results["A02"]["15-24"]["computer_excl_games"].series_id = "TUU10101AA02021432"
    /\ results["A02"]["15-24"]["computer_excl_games"].minutes = Some(15000)

\* The entry was made of an observation of the response that carries a number
FromUsableObservation(entry) ==
    /\ http.kind = "ok" /\ "Results" \in DOMAIN http.body
    /\ \E k \in 1..Len(http.body["Results"]["series"]) :
          LET series == http.body["Results"]["series"][k]
          IN  /\ series["seriesID"] = entry.series_id
              /\ \E j \in 1..Len(series["data"]) :
                    /\ series["data"][j]["value"] # "-"
                    /\ entry.hours = Some(float(series["data"][j]["value"]))

\* The entry stored for (age, activity) under the series dictionary d
UsableEntry(d, age, activity, entry) ==
    /\ age \in DOMAIN d /\ activity \in DOMAIN d[age]
    /\ entry.series_id = d[age][activity]
    /\ ~IsNaN(entry.hours)
    /\ entry.minutes = Some(60 * entry.hours.val)
    /\ FromUsableObservation(entry)

\* C13 as claimed: in the results of fetch_all_age_data and of
\* fetch_comparison_data no entry comes from an observation whose value was
\* '-'; every entry results[...][age][activity] has the series ID the series
\* dictionary assigns to (age, activity), and minutes equal to 60 times hours.
C13_OnlyUsableObservations ==
    /\ (script = "create_final_age_visualizations" /\ pc \in {"present", "done"}) =>
          \A age \in DOMAIN results : \A activity \in DOMAIN results[age] :
              UsableEntry(get_discovered_series, age, activity, results[age][activity])
    /\ (script = "create_participant_comparison" /\ pc \in {"present", "done"}) =>
          /\ \A age \in DOMAIN results["A01"] : \A activity \in DOMAIN results["A01"][age] :
                UsableEntry(a01_series, age, activity, results["A01"][age][activity])
          /\ \A age \in DOMAIN results["A02"] : \A activity \in DOMAIN results["A02"][age] :
                UsableEntry(a02_series, age, activity, results["A02"][age][activity])

---------------------------------------------------------------------------
(* SpecPdf: one call of one extractor of extract_atus_final.py or scrape_atus.py *)

PdfFunctions ==
    {"extract_key_statistics", "extract_table_11a_data", "extract_table_11b_data"}

\* The dicts extract_key_statistics returns
ExtractedStats ==
    {extract_key_statistics(Pdf(2, 2, page)).ret.value.val : page \in SummaryPages}

\* The table lines of the pages process_and_save_data's tables are read from
SavedLines ==
    {[text |-> "65 to 74 years ..", numbers |-> NumbersOf(6)],
     [text |-> "65 to 74 years ..", numbers |-> NumbersOf(8)],
     [text |-> "Men ....", numbers |-> NumbersOf(16)]}

\* The tables extract_table_11a_data and extract_table_11b_data return for them
ExtractedTables11A == {Loop11A(<<>>, l, 1) : l \in SeqsUpTo(SavedLines, MaxLines)}

ExtractedTables11B == {Loop11B(<<>>, l, 1) : l \in SeqsUpTo(SavedLines, MaxLines)}

PdfArgs(fn) ==
    IF fn = "process_and_save_data"
    THEN {[key_stats |-> k, table_11a_df |-> a, table_11b_df |-> b] :
            k \in ExtractedStats, a \in ExtractedTables11A, b \in ExtractedTables11B}
    ELSE IF fn = "extract_time_use_data"
    THEN {[lines |-> l] : l \in SeqsUpTo(ScrapeLines, MaxTextLines)}
    ELSE IF fn = "extract_key_statistics"
    THEN {[pdf |-> Pdf(n, 2, page), page_num |-> 2] :
            n \in 0..MaxPages, page \in SummaryPages}
    ELSE {[pdf |-> Pdf(n, at, page), page_num |-> at] :
            n \in 0..MaxPages, at \in 1..MaxPages, page \in TablePages}

InitPdf ==
    /\ script \in PdfFunctions \cup {"extract_time_use_data", "process_and_save_data"}
    /\ arg \in PdfArgs(script)
    /\ pc = "call"
    /\ Fresh

\* The extractor opened the document and came back
Extracted(r) ==
    /\ ret' = r.ret
    /\ doc' = r.doc
    /\ pc' = "done"
    /\ UNCHANGED <<script, arg, http, requests, answers, steps, files, results>>

ExtractKeyStatistics ==
    /\ script = "extract_key_statistics" /\ pc = "call"
    /\ Extracted(extract_key_statistics(arg.pdf))

ExtractTable11A ==
    /\ script = "extract_table_11a_data" /\ pc = "call"
    /\ Extracted(extract_table_11a_data(arg.pdf, arg.page_num))

ExtractTable11B ==
    /\ script = "extract_table_11b_data" /\ pc = "call"
    /\ Extracted(extract_table_11b_data(arg.pdf, arg.page_num))

\* scrape_atus.extract_time_use_data reads every page there is, closes the
\* document and returns one of the tables the sort can produce
ExtractTimeUseData ==
    /\ script = "extract_time_use_data" /\ pc = "call"
    /\ \E df \in extract_time_use_data(arg.lines) :
          Extracted([ret |-> Return(Some(df)), doc |-> "closed"])

\* extract_atus_final.process_and_save_data changes key_stats and the Table
\* 11A frame in place, writes its files and returns None
ProcessAndSaveData ==
    /\ script = "process_and_save_data" /\ pc = "call"
    /\ LET r == process_and_save_data(arg.key_stats, arg.table_11a_df, arg.table_11b_df)
       IN  /\ results' = r
           /\ files' = files \cup {r.csv[i].path : i \in 1..Len(r.csv)}
    /\ ret' = Return(None)
    /\ pc' = "done"
    /\ UNCHANGED <<script, arg, http, requests, answers, steps, doc>>

NextPdf ==
    \/ ProcessAndSaveData
    \/ ExtractTimeUseData
    \/ ExtractKeyStatistics
    \/ ExtractTable11A
    \/ ExtractTable11B

SpecPdf == InitPdf /\ [][NextPdf]_vars

---------------------------------------------------------------------------
(* SpecTables: one call of parse_atus_tables.parse_time_use_data or of
   scrape_atus_detailed.process_demographic_tables *)

TableFunctions == {"parse_time_use_data", "process_demographic_tables"}

\* A second table of the dict, read after "Table 1"
Table11A == [name |-> "Table 11A", page |-> 2, lines |-> <<"Watching TV 1:30">>]

TableArgs(fn) ==
    IF fn = "parse_time_use_data"
    THEN {[extracted_tables |-> <<[name |-> "Table 1", page |-> 1, lines |-> l]>> \o more] :
            l \in SeqsUpTo(ParseLines, MaxTableLines), more \in {<<>>, <<Table11A>>}}
    ELSE {[results |-> [demographic_tables |->
                          [i \in 1..Len(t) |-> [page |-> i, table_index |-> 0, data |-> t[i]]]]] :
            t \in SeqsUpTo(DemographicTables, MaxTables)}

InitTables ==
    /\ script \in TableFunctions
    /\ arg \in TableArgs(script)
    /\ pc = "call"
    /\ Fresh

ParseTimeUseData ==
    /\ script = "parse_time_use_data" /\ pc = "call"
    /\ ret' = Return(Some(parse_time_use_data(arg.extracted_tables)))
    /\ pc' = "done"
    /\ UNCHANGED <<script, arg, http, requests, answers, steps, files, results, doc>>

\* The pages of the errors printed are kept in steps
ProcessDemographicTables ==
    /\ script = "process_demographic_tables" /\ pc = "call"
    /\ LET r == process_demographic_tables(arg.results)
       IN  /\ ret' = Return(Some(r.processed_data))
           /\ steps' = r.printed
    /\ pc' = "done"
    /\ UNCHANGED <<script, arg, http, requests, answers, files, results, doc>>

NextTables ==
    \/ ParseTimeUseData
    \/ ProcessDemographicTables

SpecTables == InitTables /\ [][NextTables]_vars

---------------------------------------------------------------------------
(* Claims about the PDF extractors *)

\* Some sentence of the page is matched by the pattern
Matched(pattern) ==
    \E i \in 1..Len(arg.pdf[2].sentences) : arg.pdf[2].sentences[i].pattern = pattern

\* C6: for every text of page 2, extract_key_statistics raises nothing and
\* returns a dict that has tv_hours, total_leisure_hours, gaming_minutes and
\* socializing_minutes exactly when the key's regular expression matched, and
\* men_leisure_hours and women_leisure_hours both or neither.
C6_KeyPresentIffMatched ==
    (Returned("extract_key_statistics") /\ Len(arg.pdf) >= 2) =>
        /\ ret.raised = "" /\ ~ret.value.none
        /\ LET key_stats == ret.value.val
           IN  /\ "tv_hours" \in DOMAIN key_stats <=> Matched("tv")
               /\ "total_leisure_hours" \in DOMAIN key_stats <=> Matched("leisure")
               /\ "gaming_minutes" \in DOMAIN key_stats <=> Matched("gaming")
               /\ "socializing_minutes" \in DOMAIN key_stats <=> Matched("social")
               /\ "men_leisure_hours" \in DOMAIN key_stats <=> Matched("gender")
               /\ "women_leisure_hours" \in DOMAIN key_stats
                    <=> "men_leisure_hours" \in DOMAIN key_stats
               /\ DOMAIN key_stats \subseteq
                    {"tv_hours", "total_leisure_hours", "gaming_minutes",
                     "socializing_minutes", "men_leisure_hours", "women_leisure_hours"}

C6_Witness ==
    /\ Returned("extract_key_statistics") /\ Len(arg.pdf) >= 2
    /\ ret.raised = ""
    /\ DOMAIN ret.value.val = {"tv_hours", "men_leisure_hours", "women_leisure_hours"}
    /\ ~Matched("gaming") /\ Matched("tv")

\* C17: every row extract_time_use_data returns has total_minutes = 60 * hours
\* + minutes, total_minutes > 0 and a category that is not empty; no two rows
\* have the same category; the rows are in non-increasing order of
\* total_minutes.
C17_TimeUseRows ==
    Returned("extract_time_use_data") =>
        /\ ret.raised = "" /\ ~ret.value.none
        /\ LET df == ret.value.val
           IN  /\ \A i \in 1..Len(df) :
                     /\ df[i].total_minutes = 60 * df[i].hours + df[i].minutes
                     /\ df[i].total_minutes > 0
                     /\ df[i].category # ""
               /\ \A i, j \in 1..Len(df) : df[i].category = df[j].category => i = j
               /\ \A i \in 1..(Len(df) - 1) : df[i].total_minutes >= df[i + 1].total_minutes

C17_Witness ==
    /\ Returned("extract_time_use_data")
    /\ arg.lines = <<"Working 3:15", "Eating... 3:15", "Sleeping 8:30">>
    /\ Len(ret.value.val) = 3
    /\ ret.value.val[1] =
          [category |-> "Sleeping", hours |-> 8, minutes |-> 30, total_minutes |-> 510]
    /\ ret.value.val[2].category = "Eating"
    /\ ret.value.val[3].category = "Working"

\* For each line of the text from line i on, the rows the loop of lines 22-44
\* makes of it: one row or none
RECURSIVE LineRows(_, _)
LineRows(lines, i) ==
    IF i > Len(lines) THEN <<>>
    ELSE <<ScrapeLoop(<<>>, <<lines[i]>>, 1)>> \o LineRows(lines, i + 1)

\* Line i yields a row of category c with total_minutes > 0
PositiveLine(rows, i, c) ==
    /\ rows[i] # <<>>
    /\ rows[i][1].category = c
    /\ rows[i][1].total_minutes > 0

\* C18: a category is in the table extract_time_use_data returns if and only
\* if one of its lines has total_minutes > 0, and its row is that of the first
\* such line of the document: a line without minutes that comes earlier does
\* not hide it.
C18_FirstPositiveKept ==
    Returned("extract_time_use_data") =>
        LET df   == ret.value.val
            n    == Len(arg.lines)
            rows == LineRows(arg.lines, 1)
        IN  /\ \A i \in 1..n :
                  rows[i] # <<>> =>
                     ((\E k \in 1..Len(df) : df[k].category = rows[i][1].category)
                        <=> (\E j \in 1..n : PositiveLine(rows, j, rows[i][1].category)))
            /\ \A k \in 1..Len(df) :
                  \E j \in 1..n :
                     /\ PositiveLine(rows, j, df[k].category)
                     /\ df[k] = rows[j][1]
                     /\ \A earlier \in 1..(j - 1) : ~PositiveLine(rows, earlier, df[k].category)

C18_Witness ==
    /\ Returned("extract_time_use_data")
    /\ arg.lines = <<"Sleeping.. 0:00", "Sleeping 7:45", "Sleeping 8:30">>
    /\ ret.value.val =
          <<[category |-> "Sleeping", hours |-> 7, minutes |-> 45, total_minutes |-> 465]>>

\* The table page the extractor was given
TableLines == arg.pdf[arg.page_num].lines

\* The position of the line that row k of the table must have been made of:
\* the k-th of the selected positions
RECURSIVE KthOf(_, _)
KthOf(positions, k) ==
    LET first == CHOOSE i \in positions : \A j \in positions : i <= j
    IN  IF k = 1 THEN first ELSE KthOf(positions \ {first}, k - 1)

\* A line that is not blank, holds a keyword of Table 11A and has at least 7
\* decimal numbers
Qualifies11A(line) ==
    /\ ~(Strip(line.text) = "" /\ line.numbers = <<>>)
    /\ \E keyword \in Keywords11A : Contains(line.text, keyword)
    /\ Len(line.numbers) >= 7

\* The positions of the lines of the page that qualify for Table 11A
Selected11A == {i \in 1..Len(TableLines) : Qualifies11A(TableLines[i])}

\* C19: extract_table_11a_data returns one row for each line of the page
\* that is not blank, contains a demographic keyword and has at least 7
\* decimal numbers, in the order of the lines, and no other row; the fields
\* total_leisure, sports, socializing, tv, reading, relaxing and gaming of a
\* row are the first seven numbers of its line, and other is the eighth, or 0
\* for a line of exactly seven.
C19_Table11ARows ==
    (Returned("extract_table_11a_data") /\ Len(arg.pdf) >= arg.page_num) =>
        /\ ret.raised = "" /\ ~ret.value.none
        /\ LET df == ret.value.val
           IN  /\ Len(df) = Cardinality(Selected11A)
               /\ \A k \in 1..Len(df) :
                     LET numbers == TableLines[KthOf(Selected11A, k)].numbers
                     IN  /\ df[k].total_leisure = numbers[1]
                         /\ df[k].sports = numbers[2]
                         /\ df[k].socializing = numbers[3]
                         /\ df[k].tv = numbers[4]
                         /\ df[k].reading = numbers[5]
                         /\ df[k].relaxing = numbers[6]
                         /\ df[k].gaming = numbers[7]
                         /\ df[k].other = IF Len(numbers) = 7 THEN 0 ELSE numbers[8]

C19_Witness ==
    /\ Returned("extract_table_11a_data") /\ Len(arg.pdf) >= arg.page_num
    /\ Len(TableLines) = 2
    /\ TableLines[1] = [text |-> "Employed ....", numbers |-> NumbersOf(8)]
    /\ TableLines[2] = [text |-> "65 to 74 years ..", numbers |-> NumbersOf(8)]
    /\ Len(ret.value.val) = 1
    /\ ret.value.val[1].demographic = "65 to 74 years .."
    /\ ret.value.val[1].other = 825

\* A line that holds a keyword of Table 11B and has at least 16 decimal numbers
Qualifies11B(line) ==
    /\ \E keyword \in Keywords11B : Contains(line.text, keyword)
    /\ Len(line.numbers) >= 16

\* The positions of the lines of the page that qualify for Table 11B
Selected11B == {i \in 1..Len(TableLines) : Qualifies11B(TableLines[i])}

\* The activities of Table 11B, in the order of its columns
Activities11B ==
    <<"total", "sports", "socializing", "tv", "reading", "relaxing", "gaming", "other">>

\* C20: extract_table_11b_data returns a row for a line if and only if the
\* line contains a demographic keyword and has at least 16 decimal numbers
\* (a line of 2 to 15 numbers gives no row); the 16 fields of a row are the
\* first 16 numbers of its line, taken as (weekday, weekend) pairs in the
\* order total, sports, socializing, tv, reading, relaxing, gaming, other.
C20_Table11BRows ==
    (Returned("extract_table_11b_data") /\ Len(arg.pdf) >= arg.page_num) =>
        /\ ret.raised = "" /\ ~ret.value.none
        /\ LET df == ret.value.val
           IN  /\ Len(df) = Cardinality(Selected11B)
               /\ \A k \in 1..Len(df) :
                     LET numbers == TableLines[KthOf(Selected11B, k)].numbers
                     IN  /\ DOMAIN df[k] =
                               {"demographic"}
                               \cup {Activities11B[a] \o "_weekday" : a \in 1..8}
                               \cup {Activities11B[a] \o "_weekend" : a \in 1..8}
                         /\ \A a \in 1..8 :
                               /\ df[k][Activities11B[a] \o "_weekday"] = numbers[2 * a - 1]
                               /\ df[k][Activities11B[a] \o "_weekend"] = numbers[2 * a]

C20_Witness ==
    /\ Returned("extract_table_11b_data") /\ Len(arg.pdf) >= arg.page_num
    /\ Len(TableLines) = 2
    /\ TableLines[1] = [text |-> "Men ....", numbers |-> NumbersOf(15)]
    /\ TableLines[2] = [text |-> "Men ....", numbers |-> NumbersOf(16)]
    /\ Len(ret.value.val) = 1
    /\ ret.value.val[1].demographic = "Men "
    /\ ret.value.val[1].gaming_weekend = 1425

\* The keys process_and_save_data may set
MinuteKeys == {"tv_minutes", "total_leisure_minutes"}

\* C21: after process_and_save_data, key_stats has 'tv_minutes' exactly when it
\* has 'tv_hours', with tv_minutes = 60 * tv_hours, and
\* 'total_leisure_minutes' exactly when it has 'total_leisure_hours', with
\* total_leisure_minutes = 60 * total_leisure_hours; every other key is there
\* exactly when it was there before, with the value it had.
C21_HoursToMinutes ==
    Returned("process_and_save_data") =>
        LET before == arg.key_stats
            after == results.key_stats
        IN  /\ ("tv_minutes" \in DOMAIN after) <=> ("tv_hours" \in DOMAIN after)
            /\ "tv_hours" \in DOMAIN after =>
                  after["tv_minutes"] = 60 * after["tv_hours"]
            /\ ("total_leisure_minutes" \in DOMAIN after)
                  <=> ("total_leisure_hours" \in DOMAIN after)
            /\ "total_leisure_hours" \in DOMAIN after =>
                  after["total_leisure_minutes"] = 60 * after["total_leisure_hours"]
            /\ DOMAIN after \ MinuteKeys = DOMAIN before
            /\ \A key \in DOMAIN before : after[key] = before[key]

\* The call converted both a TV and a total-leisure statistic
C21_Witness ==
    /\ Returned("process_and_save_data")
    /\ DOMAIN arg.key_stats = {"tv_hours", "total_leisure_hours", "gaming_minutes"}
    /\ arg.key_stats["tv_hours"] = 260
    /\ results.key_stats["tv_minutes"] = 15600
    /\ results.key_stats["total_leisure_minutes"] = 30600
    /\ results.key_stats["gaming_minutes"] = 37

PctColumns == {"gaming_pct_of_leisure", "tv_pct_of_leisure", "socializing_pct_of_leisure"}

\* The positions of the files of that path among the files written
WrittenAt(path) == {i \in 1..Len(results.csv) : results.csv[i].path = path}

\* Every row of the i-th file written has / lacks the percentage columns
HasPctColumns(i) ==
    \A k \in 1..Len(results.csv[i].rows) : PctColumns \subseteq DOMAIN results.csv[i].rows[k]

LacksPctColumns(i) ==
    \A k \in 1..Len(results.csv[i].rows) : PctColumns \cap DOMAIN results.csv[i].rows[k] = {}

\* C22: process_and_save_data writes data/key_statistics.csv in every call;
\* it writes leisure_by_demographics.csv and leisure_analysis.csv exactly when
\* the Table 11A table is non-empty, the former first and without the three
\* *_pct_of_leisure columns, the latter with them; it writes
\* leisure_by_day_type.csv exactly when the Table 11B table is non-empty.
C22_OutputConditions ==
    Returned("process_and_save_data") =>
        /\ WrittenAt("data/key_statistics.csv") = {1}
        /\ "data/key_statistics.csv" \in files
        /\ ("data/leisure_by_demographics.csv" \in files) <=> (arg.table_11a_df # <<>>)
        /\ ("data/leisure_analysis.csv" \in files) <=> (arg.table_11a_df # <<>>)
        /\ ("data/leisure_by_day_type.csv" \in files) <=> (arg.table_11b_df # <<>>)
        /\ \A i \in WrittenAt("data/leisure_by_demographics.csv") :
              /\ LacksPctColumns(i)
              /\ results.csv[i].rows = arg.table_11a_df
              /\ \A j \in WrittenAt("data/leisure_analysis.csv") : i < j
        /\ \A j \in WrittenAt("data/leisure_analysis.csv") :
              /\ HasPctColumns(j)
              /\ Len(results.csv[j].rows) = Len(arg.table_11a_df)
        /\ \A i \in 1..Len(results.csv) : results.csv[i].path \in files

\* The call found no statistic and no Table 11B row, but a Table 11A row: it
\* wrote key_statistics.csv and the two Table 11A files
C22_Witness ==
    /\ Returned("process_and_save_data")
    /\ arg.key_stats = EmptyDict
    /\ Len(arg.table_11a_df) = 1
    /\ arg.table_11b_df = <<>>
    /\ files = {"data/key_statistics.csv", "data/leisure_by_demographics.csv",
                "data/leisure_analysis.csv"}
    /\ results.csv[1].rows = <<EmptyDict>>
    /\ results.csv[3].rows[1]["gaming_pct_of_leisure"] = Some(58000)

\* C9 as claimed: when the PDF lacks the target page (page 2 for
\* extract_key_statistics, page page_num for the table extractors) the
\* extractor returns an empty result and the document is closed.
C9_MissingPageEmptyResult ==
    (script \in PdfFunctions /\ pc = "done" /\ Len(arg.pdf) < arg.page_num) =>
        /\ ret.raised = ""
        /\ ~ret.value.none
        /\ ret.value.val = <<>>
        /\ doc = "closed"

---------------------------------------------------------------------------
(* Claims about the table parsers *)

\* The records the call returned
Records == ret.value.val

\* Some time pattern matches the line, and every one that does gives 0 minutes
ZeroTimeOnly(line) ==
    /\ \E p \in 1..4 : ~FirstMatch(p, line).none
    /\ \A p \in 1..4 :
          ~FirstMatch(p, line).none => TimeInMinutes(FirstMatch(p, line).val, line) = 0

\* C23: every record parse_time_use_data and process_demographic_tables
\* return has time_minutes >= 1, and a matched time of zero makes no record:
\* no record of parse_time_use_data has for time_string a line whose only
\* times are zero, and no record of process_demographic_tables is made of
\* a row whose time cell reads zero.
C23_PositiveDurations ==
    /\ (script \in TableFunctions /\ pc = "done") =>
          \A k \in 1..Len(Records) : Records[k].time_minutes >= 1
    /\ Returned("parse_time_use_data") =>
          \A t \in 1..Len(arg.extracted_tables) :
             \A j \in 1..Len(arg.extracted_tables[t].lines) :
                ZeroTimeOnly(arg.extracted_tables[t].lines[j]) =>
                   \A k \in 1..Len(Records) :
                      ~(/\ Records[k].table = arg.extracted_tables[t].name
                        /\ Records[k].time_string = Strip(arg.extracted_tables[t].lines[j]))
    /\ Returned("process_demographic_tables") =>
          \A k \in 1..Len(Records) :
             \A name \in DOMAIN Records[k].raw_data :
                extract_time_values(Records[k].raw_data[name]) # Some(0)

\* An activity line followed by 0:00 and 45 min gave the one record of 45 minutes
C23_Witness ==
    /\ Returned("parse_time_use_data")
    /\ Len(arg.extracted_tables) = 1
    /\ arg.extracted_tables[1].lines = <<"Playing games", "0:00", "45 min">>
    /\ Len(Records) = 1
    /\ Records[1].time_string = "45 min"
    /\ Records[1].time_minutes = 45

\* The minutes the claim gives a match of that time pattern
ClaimedMinutes(time_pattern, groups) ==
    CASE time_pattern = 1 -> (FloatOf(groups[1]).num * 60) \div FloatOf(groups[1]).den
      [] time_pattern \in {2, 3} -> 60 * IntOf(groups[1]) + IntOf(groups[2])
      [] time_pattern = 4 -> IntOf(groups[1])

\* C24 as claimed: the time_minutes of every record of parse_time_use_data is
\* the conversion of a match on its time_string: floor(value * 60) for the
\* decimal-hours pattern, 60 * H + M for the H:MM and the 'X hours Y minutes'
\* patterns, the number itself for the minutes-only pattern.
C24_TimesInMinutes ==
    Returned("parse_time_use_data") =>
        \A k \in 1..Len(Records) :
           \E p \in 1..4 :
              /\ ~FirstMatch(p, Records[k].time_string).none
              /\ Records[k].time_minutes
                    = ClaimedMinutes(p, FirstMatch(p, Records[k].time_string).val)

\* The lines of the table that record is of
LinesOf(record) ==
    LET t == CHOOSE x \in 1..Len(arg.extracted_tables) :
                arg.extracted_tables[x].name = record.table
    IN  arg.extracted_tables[t].lines

\* C25 as claimed: no two records of parse_time_use_data share table,
\* activity_type, activity_description and time_string, and every record
\* pairs an activity line with itself or one of the next two lines.
C25_OneRecordPerPair ==
    Returned("parse_time_use_data") =>
        /\ \A k, l \in 1..Len(Records) :
              (/\ Records[k].table = Records[l].table
               /\ Records[k].activity_type = Records[l].activity_type
               /\ Records[k].activity_description = Records[l].activity_description
               /\ Records[k].time_string = Records[l].time_string) => k = l
        /\ \A k \in 1..Len(Records) :
              \E i \in 1..Len(LinesOf(Records[k])) :
                 \E j \in i..(i + 2) :
                    /\ j <= Len(LinesOf(Records[k]))
                    /\ Strip(LinesOf(Records[k])[i]) = Records[k].activity_description
                    /\ Strip(LinesOf(Records[k])[j]) = Records[k].time_string

\* The tables of the call
Tables == arg.results["demographic_tables"]

\* The table is empty, or its frame cannot be built
Yields(table_info) ==
    IF table_info.data = <<>> \/ FrameRaises(table_info.data) THEN <<>>
    ELSE TableRecords(table_info)

\* C26: process_demographic_tables returns, whatever table raised: its list
\* holds the records of every table that is neither empty nor raising, in the
\* order of the tables, those before and those after a raising table alike,
\* and the page of every raising table is printed.
C26_ErrorIsolation ==
    Returned("process_demographic_tables") =>
        /\ ret.raised = ""
        /\ Records = Concat([i \in 1..Len(Tables) |-> Yields(Tables[i])])
        /\ steps = SelectSeq([i \in 1..Len(Tables) |-> Tables[i].page],
                             LAMBDA page : /\ Tables[page].data # <<>>
                                           /\ FrameRaises(Tables[page].data))

\* The second of three tables raised; the records of the first and of the
\* third are both returned
C26_Witness ==
    /\ Returned("process_demographic_tables")
    /\ Len(Tables) = 3
    /\ Tables[1].data # <<>> /\ ~FrameRaises(Tables[1].data)
    /\ Tables[2].data # <<>> /\ FrameRaises(Tables[2].data)
    /\ steps = <<2>>
    /\ Len(Records) = 2
    /\ Records[1].page = 1 /\ Records[1].time_minutes = 30
    /\ Records[2].page = 3 /\ Records[2].time_minutes = 45

===========================================================================
